---- MODULE Spec2Model ----
(***************************************************************************)
(* Trigger-evaluation engine of lawn-plan (src/lawn_care/triggers.py),     *)
(* the soil projector (src/lawn_care/scraper.py) and the steps of a run    *)
(* (src/lawn_notify.py).                                                   *)
(*                                                                         *)
(* Values.  A calendar date (datetime.date) is its proleptic Gregorian     *)
(* ordinal, as date.toordinal() gives it.  A date string is the tuple of   *)
(* its numeric fields: "MM-DD" is <<m, d>> (Python length 5, here length   *)
(* 2) and "YYYY-MM-DD" is <<y, m, d>>; strptime and strftime convert       *)
(* between tuples and ordinals.  Python's None is the number None for      *)
(* dates and temperatures and the string "None" for a missing string.      *)
(* A dict is a function on its keys; the empty dict is <<>>.               *)
(* A raised exception is a verdict (or ranker result) whose exc field      *)
(* names the exception; exc = "" means the call returned.                  *)
(* A reason string is the tuple of the pieces the f-string is built from,  *)
(* the fixed text first.                                                   *)
(***************************************************************************)
EXTENDS Integers, Sequences, FiniteSets, TLC

VARIABLES
    schedule,     \* the loaded schedule: [applications |-> <<app, ...>>]
    state,        \* the state dict in memory: completed, soil_temp_history
    disk,         \* the state file as save_state last wrote it
    soil_temp,    \* today's soil temperature, or None
    today,        \* the reference date passed to the engine
    clock_year,   \* date.today().year: the system clock read by parse_date
    limit,        \* the limit of the last get_upcoming_applications call
    verdicts,     \* evaluate_trigger's result for every application
    upcoming,     \* get_upcoming_applications' result (its list)
    raised,       \* the exception the ranker call raised, "" if it returned
    prev,         \* the log of the earlier evaluations or runs, oldest first
                  \* (of runs: the boxes the run read, then the sends failed)
    points,       \* the points the last step of a run passed at which the run
                  \* may stop, in order: what memory and the file held
    fn_args,      \* the arguments of the last call of a pure helper
    fn_ret,       \* and what that call returned
    pc            \* the step reached: "start", "evaluated", "ranked" for the
                  \* engine; "idle", "loaded", ... for a run; "call",
                  \* "returned" for a helper; "history" for the history

vars == <<schedule, state, disk, soil_temp, today, clock_year, limit, verdicts,
          upcoming, raised, prev, points, fn_args, fn_ret, pc>>

\* ------------------------------------------------------------ bounds

\* Longest temperature history drawn as an input.
MaxHist == 3
\* Largest explicit limit passed to the ranker.
MaxLimit == 2
\* Most re-evaluations on later dates in one behaviour.
MaxReruns == 2
\* Days after the first on which a run of the program starts.
MaxRunDays == 2
\* Most entries of an air-temperature forecast, today's included.
MaxForecast == 3
\* Most calls of update_soil_temp_history in one behaviour.
MaxUpdates == 3
\* Deepest nesting of evaluate_trigger calls the interpreter allows before it
\* raises RecursionError (sys.getrecursionlimit() frames in Python; kept
\* small here, between the shorter and the longer chains of aliases drawn).
RecursionLimit == 4

\* ------------------------------------------------------- Python values

None == -1000
NoneStr == "None"
EmptyDict == <<>>

HasKey(d, k) == k \in DOMAIN d
Get(d, k, default) == IF k \in DOMAIN d THEN d[k] ELSE default

\* d[k] = v and del d[k]
Put(d, k, v) == [x \in DOMAIN d \cup {k} |-> IF x = k THEN v ELSE d[x]]
Del(d, k) == [x \in DOMAIN d \ {k} |-> d[x]]

Min(a, b) == IF a <= b THEN a ELSE b
Max(a, b) == IF a >= b THEN a ELSE b

\* seq[:n], Python's slice from the start.
SliceTo(seq, n) ==
    IF n >= 0 THEN SubSeq(seq, 1, Min(n, Len(seq)))
    ELSE SubSeq(seq, 1, Max(0, Len(seq) + n))

\* -------------------------------------------------------- datetime.date

CalYears == 2025 .. 2028

IsLeap(y) == (y % 4 = 0) /\ ((y % 100 # 0) \/ (y % 400 = 0))

DaysInMonth(y, m) ==
    CASE m = 2 -> IF IsLeap(y) THEN 29 ELSE 28
      [] m \in {4, 6, 9, 11} -> 30
      [] OTHER -> 31

\* Days of the year before the first of month m.
DaysBeforeMonth(y, m) ==
    <<0, 31, 59, 90, 120, 151, 181, 212, 243, 273, 304, 334>>[m]
        + (IF m > 2 /\ IsLeap(y) THEN 1 ELSE 0)

\* Days before January 1st of year y.
DaysBeforeYear(y) ==
    (y - 1) * 365 + ((y - 1) \div 4) - ((y - 1) \div 100) + ((y - 1) \div 400)

\* date(y, m, d)
Date(y, m, d) == DaysBeforeYear(y) + DaysBeforeMonth(y, m) + d

ValidYMD(y, m, d) == m \in 1 .. 12 /\ d >= 1 /\ d <= DaysInMonth(y, m)

\* d.year, d.month, d.day of the date with ordinal o.
YearOf(o) ==
    CHOOSE y \in CalYears : DaysBeforeYear(y) < o /\ o <= DaysBeforeYear(y + 1)
MonthOf(o) ==
    LET y == YearOf(o)
        n == o - DaysBeforeYear(y)
    IN  CHOOSE m \in 1 .. 12 :
            DaysBeforeMonth(y, m) < n
                /\ n <= DaysBeforeMonth(y, m) + DaysInMonth(y, m)
DayOf(o) ==
    LET y == YearOf(o)
    IN  o - DaysBeforeYear(y) - DaysBeforeMonth(y, MonthOf(o))

\* d.strftime("%Y-%m-%d")
strftime(o) == <<YearOf(o), MonthOf(o), DayOf(o)>>
\* datetime.strptime(s, "%Y-%m-%d").date(); ValueError when s names no date.
strptime_ok(s) == Len(s) = 3 /\ ValidYMD(s[1], s[2], s[3])
strptime(s) == Date(s[1], s[2], s[3])

\* date(9999, 12, 31), the ranker's far-future sentinel.
FarFuture == Date(9999, 12, 31)

\* parse_date(date_str) with year=None: an "MM-DD" string gets the year of
\* the system clock, not of the engine's reference date.
parse_date_ok(date_str) ==
    IF Len(date_str) = 2 THEN ValidYMD(clock_year, date_str[1], date_str[2])
    ELSE strptime_ok(date_str)
parse_date(date_str) ==
    IF Len(date_str) = 2 THEN strptime(<<clock_year, date_str[1], date_str[2]>>)
    ELSE strptime(date_str)

\* ------------------------------------------------------------ verdicts

\* The exception exc propagating out of a call that returns a verdict.
Raise(e) ==
    [exc |-> e, ready |-> FALSE, projected_date |-> None, reason |-> <<>>,
     window_start |-> None, window_end |-> None]

\* evaluate_trigger's initial result dict.
InitialResult ==
    [exc |-> "", ready |-> FALSE, projected_date |-> None, reason |-> <<>>,
     window_start |-> None, window_end |-> None]

\* Mutant: an entry that fails the comparison is passed over, not the end of
\* the count.
RECURSIVE count_consecutive_days_at_temp_skip(_, _, _)
count_consecutive_days_at_temp_skip(history, threshold, direction) ==
    IF Len(history) = 0 THEN 0
    ELSE LET temp == history[1]["temp"]
             rest == count_consecutive_days_at_temp_skip(Tail(history),
                                                         threshold, direction)
         IN  IF \/ (direction = "rising" /\ temp >= threshold)
                \/ (direction = "falling" /\ temp <= threshold)
             THEN 1 + rest
             ELSE rest

RECURSIVE count_consecutive_days_at_temp(_, _, _)
count_consecutive_days_at_temp(history, threshold, direction) ==
    IF Len(history) = 0 THEN 0
    ELSE LET temp == history[1]["temp"]
         IN  IF \/ (direction = "rising" /\ temp >= threshold)
                \/ (direction = "falling" /\ temp <= threshold)
             THEN 1 + count_consecutive_days_at_temp(Tail(history), threshold,
                                                     direction)
             ELSE 0

\* result["window_start"], result["window_end"] from app["kc_typical_window"],
\* when the application carries one.
SetTypicalWindow(app, result) ==
    IF ~HasKey(app, "kc_typical_window") THEN result
    ELSE LET w == app["kc_typical_window"]
         IN  IF ~HasKey(w, "start") THEN Raise("KeyError")
             ELSE IF ~parse_date_ok(w["start"]) THEN Raise("ValueError")
             ELSE IF ~HasKey(w, "end") THEN Raise("KeyError")
             ELSE IF ~parse_date_ok(w["end"]) THEN Raise("ValueError")
             ELSE [result EXCEPT !.window_start = parse_date(w["start"]),
                                 !.window_end = parse_date(w["end"])]

\* Mutant: the run must exceed consecutive_days.
_evaluate_soil_temp_rising_strict(app, trigger, history, st, tday, result) ==
    IF ~HasKey(trigger, "threshold_f") THEN Raise("KeyError")
    ELSE
    LET threshold == trigger["threshold_f"]
        direction == Get(trigger, "direction", "rising")
        consecutive_needed == Get(trigger, "consecutive_days", 1)
        res1 == SetTypicalWindow(app, result)
        consecutive == count_consecutive_days_at_temp(history, threshold,
                                                      direction)
    IN  IF res1.exc # "" THEN res1
        ELSE IF st = None
        THEN [res1 EXCEPT !.reason = <<"Waiting for soil temp data">>]
        ELSE IF consecutive > consecutive_needed
        THEN [res1 EXCEPT
                !.ready = TRUE,
                !.projected_date = tday,
                !.reason = <<"Soil temp", st, ">=", threshold, "for",
                             consecutive, "days">>]
        ELSE [res1 EXCEPT
                !.reason = <<"Soil temp", st, "need", consecutive_needed,
                             IF direction = "rising" THEN ">=" ELSE "<=",
                             threshold, "currently", consecutive>>]

\* Mutant: the treatment is ready only inside its typical window.
_evaluate_soil_temp_rising_gated(app, trigger, history, st, tday, result) ==
    IF ~HasKey(trigger, "threshold_f") THEN Raise("KeyError")
    ELSE
    LET threshold == trigger["threshold_f"]
        direction == Get(trigger, "direction", "rising")
        consecutive_needed == Get(trigger, "consecutive_days", 1)
        res1 == SetTypicalWindow(app, result)
        consecutive == count_consecutive_days_at_temp(history, threshold,
                                                      direction)
    IN  IF res1.exc # "" THEN res1
        ELSE IF st = None
        THEN [res1 EXCEPT !.reason = <<"Waiting for soil temp data">>]
        ELSE IF /\ consecutive >= consecutive_needed
                /\ (res1.window_start = None
                       \/ (res1.window_start <= tday /\ tday <= res1.window_end))
        THEN [res1 EXCEPT
                !.ready = TRUE,
                !.projected_date = tday,
                !.reason = <<"Soil temp", st, ">=", threshold, "for",
                             consecutive, "days">>]
        ELSE [res1 EXCEPT
                !.reason = <<"Soil temp", st, "need", consecutive_needed,
                             IF direction = "rising" THEN ">=" ELSE "<=",
                             threshold, "currently", consecutive>>]

_evaluate_soil_temp_rising(app, trigger, history, st, tday, result) ==
    IF ~HasKey(trigger, "threshold_f") THEN Raise("KeyError")
    ELSE
    LET threshold == trigger["threshold_f"]
        direction == Get(trigger, "direction", "rising")
        consecutive_needed == Get(trigger, "consecutive_days", 1)
        res1 == SetTypicalWindow(app, result)
        consecutive == count_consecutive_days_at_temp(history, threshold,
                                                      direction)
    IN  IF res1.exc # "" THEN res1
        ELSE IF st = None
        THEN [res1 EXCEPT !.reason = <<"Waiting for soil temp data">>]
        ELSE IF consecutive >= consecutive_needed
        THEN [res1 EXCEPT
                !.ready = TRUE,
                !.projected_date = tday,
                !.reason = <<"Soil temp", st, ">=", threshold, "for",
                             consecutive, "days">>]
        ELSE [res1 EXCEPT
                !.reason = <<"Soil temp", st, "need", consecutive_needed,
                             IF direction = "rising" THEN ">=" ELSE "<=",
                             threshold, "currently", consecutive>>]

\* Mutant: the season opens a month late.
_evaluate_soil_temp_falling_late(app, trigger, history, st, tday, result) ==
    IF ~HasKey(trigger, "threshold_f") THEN Raise("KeyError")
    ELSE
    LET threshold == trigger["threshold_f"]
        consecutive_needed == Get(trigger, "consecutive_days", 1)
        consecutive == count_consecutive_days_at_temp(history, threshold,
                                                      "falling")
    IN  IF MonthOf(tday) <= 8
        THEN SetTypicalWindow(app,
                [result EXCEPT !.reason =
                    <<"Fall application - waiting for fall season">>])
        ELSE IF st = None
        THEN [result EXCEPT !.reason = <<"Waiting for soil temp data">>]
        ELSE IF consecutive >= consecutive_needed
        THEN SetTypicalWindow(app,
                [result EXCEPT
                    !.ready = TRUE,
                    !.projected_date = tday,
                    !.reason = <<"Soil temp", st, "<=", threshold, "for",
                                 consecutive, "days">>])
        ELSE SetTypicalWindow(app,
                [result EXCEPT
                    !.reason = <<"Soil temp", st, "need", consecutive_needed,
                                 "<=", threshold, "currently", consecutive>>])

_evaluate_soil_temp_falling(app, trigger, history, st, tday, result) ==
    IF ~HasKey(trigger, "threshold_f") THEN Raise("KeyError")
    ELSE
    LET threshold == trigger["threshold_f"]
        consecutive_needed == Get(trigger, "consecutive_days", 1)
        consecutive == count_consecutive_days_at_temp(history, threshold,
                                                      "falling")
    IN  IF MonthOf(tday) < 8
        THEN SetTypicalWindow(app,
                [result EXCEPT !.reason =
                    <<"Fall application - waiting for fall season">>])
        ELSE IF st = None
        THEN [result EXCEPT !.reason = <<"Waiting for soil temp data">>]
        ELSE IF consecutive >= consecutive_needed
        THEN SetTypicalWindow(app,
                [result EXCEPT
                    !.ready = TRUE,
                    !.projected_date = tday,
                    !.reason = <<"Soil temp", st, "<=", threshold, "for",
                                 consecutive, "days">>])
        ELSE SetTypicalWindow(app,
                [result EXCEPT
                    !.reason = <<"Soil temp", st, "need", consecutive_needed,
                                 "<=", threshold, "currently", consecutive>>])

\* Mutant: the first day of the window is left out.
_evaluate_days_after_open(trigger, completed, tday, result) ==
    IF \/ ~HasKey(trigger, "reference_id")
       \/ ~HasKey(trigger, "days_min")
       \/ ~HasKey(trigger, "days_max")
    THEN Raise("KeyError")
    ELSE
    LET ref_id == trigger["reference_id"]
        days_min == trigger["days_min"]
        days_max == trigger["days_max"]
    IN  IF ~HasKey(completed, ref_id)
        THEN [result EXCEPT !.reason = <<"Waiting on", ref_id, "to complete">>]
        ELSE IF ~strptime_ok(completed[ref_id]) THEN Raise("ValueError")
        ELSE
        LET ref_date == strptime(completed[ref_id])
            window_start == ref_date + days_min
            window_end == ref_date + days_max
            res1 == [result EXCEPT !.window_start = window_start,
                                   !.window_end = window_end]
        IN  IF window_start < tday /\ tday <= window_end
            THEN [res1 EXCEPT
                    !.ready = TRUE,
                    !.projected_date = tday,
                    !.reason = <<"In window", days_min, days_max, "days after",
                                 ref_id>>]
            ELSE IF tday < window_start
            THEN [res1 EXCEPT
                    !.projected_date = window_start,
                    !.reason = <<"Window opens in", window_start - tday,
                                 "days", window_start>>]
            ELSE [res1 EXCEPT !.reason = <<"Window closed on", window_end>>]

\* Mutant: the test for a window still to open is the wrong way round.
_evaluate_days_after_flipped(trigger, completed, tday, result) ==
    IF \/ ~HasKey(trigger, "reference_id")
       \/ ~HasKey(trigger, "days_min")
       \/ ~HasKey(trigger, "days_max")
    THEN Raise("KeyError")
    ELSE
    LET ref_id == trigger["reference_id"]
        days_min == trigger["days_min"]
        days_max == trigger["days_max"]
    IN  IF ~HasKey(completed, ref_id)
        THEN [result EXCEPT !.reason = <<"Waiting on", ref_id, "to complete">>]
        ELSE IF ~strptime_ok(completed[ref_id]) THEN Raise("ValueError")
        ELSE
        LET ref_date == strptime(completed[ref_id])
            window_start == ref_date + days_min
            window_end == ref_date + days_max
            res1 == [result EXCEPT !.window_start = window_start,
                                   !.window_end = window_end]
        IN  IF window_start <= tday /\ tday <= window_end
            THEN [res1 EXCEPT
                    !.ready = TRUE,
                    !.projected_date = tday,
                    !.reason = <<"In window", days_min, days_max, "days after",
                                 ref_id>>]
            ELSE IF tday > window_start
            THEN [res1 EXCEPT
                    !.projected_date = window_start,
                    !.reason = <<"Window opens in", window_start - tday,
                                 "days", window_start>>]
            ELSE [res1 EXCEPT !.reason = <<"Window closed on", window_end>>]

_evaluate_days_after(trigger, completed, tday, result) ==
    IF \/ ~HasKey(trigger, "reference_id")
       \/ ~HasKey(trigger, "days_min")
       \/ ~HasKey(trigger, "days_max")
    THEN Raise("KeyError")
    ELSE
    LET ref_id == trigger["reference_id"]
        days_min == trigger["days_min"]
        days_max == trigger["days_max"]
    IN  IF ~HasKey(completed, ref_id)
        THEN [result EXCEPT !.reason = <<"Waiting on", ref_id, "to complete">>]
        ELSE IF ~strptime_ok(completed[ref_id]) THEN Raise("ValueError")
        ELSE
        LET ref_date == strptime(completed[ref_id])
            window_start == ref_date + days_min
            window_end == ref_date + days_max
            res1 == [result EXCEPT !.window_start = window_start,
                                   !.window_end = window_end]
        IN  IF window_start <= tday /\ tday <= window_end
            THEN [res1 EXCEPT
                    !.ready = TRUE,
                    !.projected_date = tday,
                    !.reason = <<"In window", days_min, days_max, "days after",
                                 ref_id>>]
            ELSE IF tday < window_start
            THEN [res1 EXCEPT
                    !.projected_date = window_start,
                    !.reason = <<"Window opens in", window_start - tday,
                                 "days", window_start>>]
            ELSE [res1 EXCEPT !.reason = <<"Window closed on", window_end>>]

\* Mutant: the first day of the window is left out.
_evaluate_calendar_window_open(trigger, tday, result) ==
    IF ~HasKey(trigger, "window_start") THEN Raise("KeyError")
    ELSE IF ~parse_date_ok(trigger["window_start"]) THEN Raise("ValueError")
    ELSE IF ~HasKey(trigger, "window_end") THEN Raise("KeyError")
    ELSE IF ~parse_date_ok(trigger["window_end"]) THEN Raise("ValueError")
    ELSE
    LET window_start == parse_date(trigger["window_start"])
        window_end == parse_date(trigger["window_end"])
        res1 == [result EXCEPT !.window_start = window_start,
                               !.window_end = window_end]
    IN  IF window_start < tday /\ tday <= window_end
        THEN [res1 EXCEPT
                !.ready = TRUE,
                !.projected_date = tday,
                !.reason = <<"In calendar window", window_start, "to",
                             window_end>>]
        ELSE IF tday < window_start
        THEN [res1 EXCEPT
                !.projected_date = window_start,
                !.reason = <<"Window opens in", window_start - tday, "days",
                             window_start>>]
        ELSE [res1 EXCEPT !.reason = <<"Window closed on", window_end>>]

_evaluate_calendar_window(trigger, tday, result) ==
    IF ~HasKey(trigger, "window_start") THEN Raise("KeyError")
    ELSE IF ~parse_date_ok(trigger["window_start"]) THEN Raise("ValueError")
    ELSE IF ~HasKey(trigger, "window_end") THEN Raise("KeyError")
    ELSE IF ~parse_date_ok(trigger["window_end"]) THEN Raise("ValueError")
    ELSE
    LET window_start == parse_date(trigger["window_start"])
        window_end == parse_date(trigger["window_end"])
        res1 == [result EXCEPT !.window_start = window_start,
                               !.window_end = window_end]
    IN  IF window_start <= tday /\ tday <= window_end
        THEN [res1 EXCEPT
                !.ready = TRUE,
                !.projected_date = tday,
                !.reason = <<"In calendar window", window_start, "to",
                             window_end>>]
        ELSE IF tday < window_start
        THEN [res1 EXCEPT
                !.projected_date = window_start,
                !.reason = <<"Window opens in", window_start - tday, "days",
                             window_start>>]
        ELSE [res1 EXCEPT !.reason = <<"Window closed on", window_end>>]

RECURSIVE evaluate_trigger(_, _, _, _, _)

\* Mutant: the alias does not copy the projected date.
_evaluate_same_as_no_date(trigger, all_apps, st8, st, tday, result) ==
    IF ~HasKey(trigger, "reference_id") THEN Raise("KeyError")
    ELSE
    LET ref_id == trigger["reference_id"]
    IN  IF ~HasKey(all_apps, ref_id)
        THEN [result EXCEPT !.reason = <<"Reference app", ref_id, "not found">>]
        ELSE LET ref_result == evaluate_trigger(all_apps[ref_id], st8, st,
                                                tday, all_apps)
             IN  IF ref_result.exc # "" THEN ref_result
                 ELSE [result EXCEPT
                         !.ready = ref_result.ready,
                         !.window_start = ref_result.window_start,
                         !.window_end = ref_result.window_end,
                         !.reason = <<"Same as", ref_id, ref_result.reason>>]

\* Mutant: all_apps[ref_id] is read without the membership test.
_evaluate_same_as_unchecked(trigger, all_apps, st8, st, tday, result) ==
    IF ~HasKey(trigger, "reference_id") THEN Raise("KeyError")
    ELSE
    LET ref_id == trigger["reference_id"]
    IN  IF ~HasKey(all_apps, ref_id)
        THEN Raise("KeyError")
        ELSE LET ref_result == evaluate_trigger(all_apps[ref_id], st8, st,
                                                tday, all_apps)
             IN  IF ref_result.exc # "" THEN ref_result
                 ELSE [result EXCEPT
                         !.ready = ref_result.ready,
                         !.projected_date = ref_result.projected_date,
                         !.window_start = ref_result.window_start,
                         !.window_end = ref_result.window_end,
                         !.reason = <<"Same as", ref_id, ref_result.reason>>]

_evaluate_same_as(trigger, all_apps, st8, st, tday, result) ==
    IF ~HasKey(trigger, "reference_id") THEN Raise("KeyError")
    ELSE
    LET ref_id == trigger["reference_id"]
    IN  IF ~HasKey(all_apps, ref_id)
        THEN [result EXCEPT !.reason = <<"Reference app", ref_id, "not found">>]
        ELSE LET ref_result == evaluate_trigger(all_apps[ref_id], st8, st,
                                                tday, all_apps)
             IN  IF ref_result.exc # "" THEN ref_result
                 ELSE [result EXCEPT
                         !.ready = ref_result.ready,
                         !.projected_date = ref_result.projected_date,
                         !.window_start = ref_result.window_start,
                         !.window_end = ref_result.window_end,
                         !.reason = <<"Same as", ref_id, ref_result.reason>>]

\* Mutant: an unrecognised kind is an error.
evaluate_trigger_strict_kind(app, st8, st, tday, all_apps) ==
    LET trigger == Get(app, "trigger", EmptyDict)
        trigger_type == Get(trigger, "type", NoneStr)
        completed == Get(st8, "completed", EmptyDict)
        history == Get(st8, "soil_temp_history", <<>>)
        result == InitialResult
    IN  IF HasKey(completed, app["id"])
        THEN [result EXCEPT !.reason = <<"Completed on", completed[app["id"]]>>]
        ELSE CASE trigger_type = "soil_temp" ->
                    _evaluate_soil_temp_rising(app, trigger, history, st, tday,
                                               result)
               [] trigger_type = "soil_temp_falling" ->
                    _evaluate_soil_temp_falling(app, trigger, history, st, tday,
                                                result)
               [] trigger_type = "days_after" ->
                    _evaluate_days_after(trigger, completed, tday, result)
               [] trigger_type = "calendar_window" ->
                    _evaluate_calendar_window(trigger, tday, result)
               [] trigger_type = "same_as" ->
                    _evaluate_same_as(trigger, all_apps, st8, st, tday, result)
               [] OTHER ->
                    Raise("ValueError")

\* Mutant: the completion record is not consulted.
evaluate_trigger_no_short_circuit(app, st8, st, tday, all_apps) ==
    LET trigger == Get(app, "trigger", EmptyDict)
        trigger_type == Get(trigger, "type", NoneStr)
        completed == Get(st8, "completed", EmptyDict)
        history == Get(st8, "soil_temp_history", <<>>)
        result == InitialResult
    IN  IF FALSE
        THEN [result EXCEPT !.reason = <<"Completed on", completed[app["id"]]>>]
        ELSE CASE trigger_type = "soil_temp" ->
                    _evaluate_soil_temp_rising(app, trigger, history, st, tday,
                                               result)
               [] trigger_type = "soil_temp_falling" ->
                    _evaluate_soil_temp_falling(app, trigger, history, st, tday,
                                                result)
               [] trigger_type = "days_after" ->
                    _evaluate_days_after(trigger, completed, tday, result)
               [] trigger_type = "calendar_window" ->
                    _evaluate_calendar_window(trigger, tday, result)
               [] trigger_type = "same_as" ->
                    _evaluate_same_as(trigger, all_apps, st8, st, tday, result)
               [] OTHER ->
                    [result EXCEPT
                        !.reason = <<"Unknown trigger type:", trigger_type>>]

\* Mutant: the falling kind is not recognised.
evaluate_trigger_four_kinds(app, st8, st, tday, all_apps) ==
    LET trigger == Get(app, "trigger", EmptyDict)
        trigger_type == Get(trigger, "type", NoneStr)
        completed == Get(st8, "completed", EmptyDict)
        history == Get(st8, "soil_temp_history", <<>>)
        result == InitialResult
    IN  IF HasKey(completed, app["id"])
        THEN [result EXCEPT !.reason = <<"Completed on", completed[app["id"]]>>]
        ELSE CASE trigger_type = "soil_temp" ->
                    _evaluate_soil_temp_rising(app, trigger, history, st, tday,
                                               result)
               [] trigger_type = "days_after" ->
                    _evaluate_days_after(trigger, completed, tday, result)
               [] trigger_type = "calendar_window" ->
                    _evaluate_calendar_window(trigger, tday, result)
               [] trigger_type = "same_as" ->
                    _evaluate_same_as(trigger, all_apps, st8, st, tday, result)
               [] OTHER ->
                    [result EXCEPT
                        !.reason = <<"Unknown trigger type:", trigger_type>>]

evaluate_trigger(app, st8, st, tday, all_apps) ==
    LET trigger == Get(app, "trigger", EmptyDict)
        trigger_type == Get(trigger, "type", NoneStr)
        completed == Get(st8, "completed", EmptyDict)
        history == Get(st8, "soil_temp_history", <<>>)
        result == InitialResult
    IN  IF HasKey(completed, app["id"])
        THEN [result EXCEPT !.reason = <<"Completed on", completed[app["id"]]>>]
        ELSE CASE trigger_type = "soil_temp" ->
                    _evaluate_soil_temp_rising(app, trigger, history, st, tday,
                                               result)
               [] trigger_type = "soil_temp_falling" ->
                    _evaluate_soil_temp_falling(app, trigger, history, st, tday,
                                                result)
               [] trigger_type = "days_after" ->
                    _evaluate_days_after(trigger, completed, tday, result)
               [] trigger_type = "calendar_window" ->
                    _evaluate_calendar_window(trigger, tday, result)
               [] trigger_type = "same_as" ->
                    _evaluate_same_as(trigger, all_apps, st8, st, tday, result)
               [] OTHER ->
                    [result EXCEPT
                        !.reason = <<"Unknown trigger type:", trigger_type>>]

\* -------------------------------------------------------------- ranker

\* {app["id"]: app for app in applications}: a later duplicate id wins.
AllApps(applications) ==
    [id \in {applications[i]["id"] : i \in 1 .. Len(applications)} |->
        LET last == CHOOSE i \in 1 .. Len(applications) :
                        /\ applications[i]["id"] = id
                        /\ \A j \in 1 .. Len(applications) :
                               applications[j]["id"] = id => j <= i
        IN  applications[last]]

\* Mutant: an entry that is not ready and has a projected date is classified
\* heads-up.
Entry_heads_up(app, idx, trigger_result) ==
    [id |-> app["id"],
     name |-> app["name"],
     category |-> Get(app, "category", "unknown"),
     schedule_order |-> idx,
     ready |-> trigger_result.ready,
     projected_date |-> trigger_result.projected_date,
     reason |-> trigger_result.reason,
     window_start |-> trigger_result.window_start,
     window_end |-> trigger_result.window_end,
     heads_up |-> ~trigger_result.ready /\ trigger_result.projected_date # None]

\* One entry of the result: the metadata, the schedule position and the
\* verdict's five fields.
Entry(app, idx, trigger_result) ==
    [id |-> app["id"],
     name |-> app["name"],
     category |-> Get(app, "category", "unknown"),
     schedule_order |-> idx,
     ready |-> trigger_result.ready,
     projected_date |-> trigger_result.projected_date,
     reason |-> trigger_result.reason,
     window_start |-> trigger_result.window_start,
     window_end |-> trigger_result.window_end]

\* x["projected_date"] or x["window_start"] or date(9999, 12, 31)
EffectiveDate(x) ==
    IF x.projected_date # None THEN x.projected_date
    ELSE IF x.window_start # None THEN x.window_start
    ELSE FarFuture

\* Mutant: the readiness flag of the key the wrong way round.
sort_key_ready_last(x) ==
    <<IF x.ready THEN 1 ELSE 0, EffectiveDate(x), x.schedule_order>>

sort_key(x) ==
    <<IF x.ready THEN 0 ELSE 1, EffectiveDate(x), x.schedule_order>>

\* Python's tuple order on sort keys.
KeyLess(k1, k2) ==
    \/ k1[1] < k2[1]
    \/ k1[1] = k2[1] /\ k1[2] < k2[2]
    \/ k1[1] = k2[1] /\ k1[2] = k2[2] /\ k1[3] < k2[3]

\* list.sort(key=sort_key): a stable sort; x goes after the entries whose key
\* is not greater than its own.
RECURSIVE InsertByKey(_, _)
InsertByKey(sorted, x) ==
    IF Len(sorted) = 0 THEN <<x>>
    ELSE IF KeyLess(sort_key(x), sort_key(sorted[Len(sorted)]))
    THEN Append(InsertByKey(SubSeq(sorted, 1, Len(sorted) - 1), x),
                sorted[Len(sorted)])
    ELSE Append(sorted, x)

RECURSIVE SortByKey(_)
SortByKey(seq) ==
    IF Len(seq) = 0 THEN <<>>
    ELSE InsertByKey(SortByKey(SubSeq(seq, 1, Len(seq) - 1)), seq[Len(seq)])

\* Mutant: the loop skips nothing.
NotCompleted_keep_all(applications, completed) ==
    [i \in 1 .. Len(applications) |-> i]

\* The 1-based positions of the applications the loop does not skip.
NotCompleted(applications, completed) ==
    SelectSeq([i \in 1 .. Len(applications) |-> i],
              LAMBDA i : ~HasKey(completed, applications[i]["id"]))

\* [exc, value]: the exception raised, or the returned list.
get_upcoming_applications(sched, st8, st, tday, lim) ==
    LET applications == Get(sched, "applications", <<>>)
        completed == Get(st8, "completed", EmptyDict)
        all_apps == AllApps(applications)
        kept == NotCompleted(applications, completed)
        results == [k \in 1 .. Len(kept) |->
                       evaluate_trigger(applications[kept[k]], st8, st, tday,
                                        all_apps)]
        excs == [k \in 1 .. Len(kept) |->
                    IF results[k].exc # "" THEN results[k].exc
                    ELSE IF ~HasKey(applications[kept[k]], "name")
                    THEN "KeyError" ELSE ""]
        failed == SelectSeq(excs, LAMBDA e : e # "")
        entries == [k \in 1 .. Len(kept) |->
                       Entry(applications[kept[k]], kept[k] - 1, results[k])]
    IN  IF Len(failed) > 0 THEN [exc |-> failed[1], value |-> <<>>]
        ELSE [exc |-> "", value |-> SliceTo(SortByKey(entries), lim)]

\* -------------------------------------------------------------- inputs

\* limit: int = 5
DefaultLimit == 5

App(id, trigger) == [id |-> id, name |-> id, trigger |-> trigger]
AppW(id, trigger, start, end) ==
    [id |-> id, name |-> id, trigger |-> trigger,
     kc_typical_window |-> [start |-> start, end |-> end]]

\* Soil-temperature treatments and a chain of aliases.
SoilSchedule ==
    [applications |-> <<
        AppW("pre_emergent",
             [type |-> "soil_temp", threshold_f |-> 55, direction |-> "rising",
              consecutive_days |-> 3],
             <<3, 8>>, <<3, 15>>),
        App("crabgrass", [type |-> "same_as", reference_id |-> "pre_emergent"]),
        App("grub", [type |-> "same_as", reference_id |-> "crabgrass"]),
        AppW("winterizer",
             [type |-> "soil_temp_falling", threshold_f |-> 54,
              consecutive_days |-> 2],
             <<9, 1>>, <<10, 15>>) >>]

\* Window treatments; dormant_seed's window wraps the end of the year.
WindowSchedule ==
    [applications |-> <<
        App("fert_spring",
            [type |-> "calendar_window", window_start |-> <<3, 8>>,
             window_end |-> <<3, 15>>]),
        App("fert_followup",
            [type |-> "days_after", reference_id |-> "fert_spring",
             days_min |-> 7, days_max |-> 14]),
        App("dormant_seed",
            [type |-> "calendar_window", window_start |-> <<11, 15>>,
             window_end |-> <<2, 15>>]),
        App("spot_spray",
            [type |-> "same_as", reference_id |-> "fert_followup"]) >>]

\* A dangling alias, an unknown kind, a treatment with no date signal, and
\* a days_after whose offsets are the wrong way round.
OddSchedule ==
    [applications |-> <<
        App("mystery", [type |-> "same_as", reference_id |-> "ghost"]),
        App("aerate", [type |-> "rainfall"]),
        App("seed", [type |-> "soil_temp", threshold_f |-> 55]),
        App("overseed",
            [type |-> "days_after", reference_id |-> "seed",
             days_min |-> 20, days_max |-> 10]) >>]

\* A soil_temp trigger that counts falling days, a fall treatment without a
\* typical window, a window given as full dates, and a missing trigger.
MixedSchedule ==
    [applications |-> <<
        App("lime",
            [type |-> "soil_temp", threshold_f |-> 54, direction |-> "falling",
             consecutive_days |-> 2]),
        App("dethatch", [type |-> "soil_temp_falling", threshold_f |-> 54]),
        App("topdress",
            [type |-> "calendar_window", window_start |-> <<2026, 3, 8>>,
             window_end |-> <<2026, 3, 15>>]),
        [id |-> "mulch", name |-> "mulch"] >>]

Schedules == {SoilSchedule, WindowSchedule, OddSchedule, MixedSchedule}

Apps == schedule["applications"]
Ids(sched) ==
    {sched["applications"][i]["id"] : i \in 1 .. Len(sched["applications"])}

\* Reference dates: before, at both ends of and after the March windows,
\* and either side of the August season boundary.
Days ==
    {Date(2026, 3, 5), Date(2026, 3, 8), Date(2026, 3, 15), Date(2026, 3, 16),
     Date(2026, 7, 31), Date(2026, 8, 1)}
ClockYears == {2026, 2027}
Temps == {54, 55}
SoilTemps == {None, 55}
CompletionDay == Date(2026, 3, 1)
Limits == (0 .. MaxLimit) \cup {DefaultLimit}

TempSeqs == UNION {[1 .. n -> Temps] : n \in 0 .. MaxHist}

\* A newest-first history with one entry per day, the newest dated tday.
History(temps, tday) ==
    [k \in 1 .. Len(temps) |->
        [date |-> strftime(tday - (k - 1)), temp |-> temps[k]]]

CompletedMaps(sched) ==
    {[id \in done |-> strftime(CompletionDay)] : done \in SUBSET Ids(sched)}

\* ------------------------------------------------------------ behaviour

InitInputs(scheds, temp_seqs) ==
    /\ schedule \in scheds
    /\ today \in Days
    /\ clock_year \in ClockYears
    /\ soil_temp \in SoilTemps
    /\ state \in {[completed |-> c, soil_temp_history |-> History(ts, today)] :
                    c \in CompletedMaps(schedule), ts \in temp_seqs}
    /\ disk = state
    /\ limit = DefaultLimit
    /\ verdicts = <<>>
    /\ upcoming = <<>>
    /\ raised = ""
    /\ prev = <<>>
    /\ points = <<>>
    /\ fn_args = <<>>
    /\ fn_ret = <<>>
    /\ pc = "start"

Init == InitInputs(Schedules, TempSeqs)

\* evaluate_trigger applied to every application of the schedule.
EvaluateAll ==
    /\ pc = "start"
    /\ verdicts' = [i \in 1 .. Len(Apps) |->
                       evaluate_trigger(Apps[i], state, soil_temp, today,
                                        AllApps(Apps))]
    /\ pc' = "evaluated"
    /\ UNCHANGED <<schedule, state, disk, soil_temp, today, clock_year, limit,
                   upcoming, raised, prev, points, fn_args, fn_ret>>

\* get_upcoming_applications(schedule, state, soil_temp, today, lim)
Rank(lim) ==
    /\ pc = "evaluated"
    /\ LET r == get_upcoming_applications(schedule, state, soil_temp, today, lim)
       IN  /\ upcoming' = r.value
           /\ raised' = r.exc
    /\ limit' = lim
    /\ pc' = "ranked"
    /\ UNCHANGED <<schedule, state, disk, soil_temp, today, clock_year,
                   verdicts, prev, points, fn_args, fn_ret>>

Next == EvaluateAll \/ \E lim \in Limits : Rank(lim)

Spec == Init /\ [][Next]_vars

\* A later run: the engine is applied again on a later date d to the same
\* schedule and the same persisted state; prev logs the earlier verdicts.
Rerun(d) ==
    /\ pc = "ranked"
    /\ Len(prev) < MaxReruns
    /\ d > today
    /\ today' = d
    /\ prev' = Append(prev, [today |-> today, verdicts |-> verdicts])
    /\ verdicts' = [i \in 1 .. Len(Apps) |->
                       evaluate_trigger(Apps[i], state, soil_temp, d,
                                        AllApps(Apps))]
    /\ LET r == get_upcoming_applications(schedule, state, soil_temp, d, limit)
       IN  /\ upcoming' = r.value
           /\ raised' = r.exc
    /\ UNCHANGED <<schedule, state, disk, soil_temp, clock_year, limit,
                   points, fn_args, fn_ret, pc>>

\* Tomorrow, and the later reference dates.
RerunDays(d) == {d + 1} \cup {x \in Days : x > d}

InitRerun == InitInputs({WindowSchedule, OddSchedule}, {<<>>})

NextRerun ==
    \/ EvaluateAll
    \/ \E lim \in Limits : Rank(lim)
    \/ \E d \in RerunDays(today) : Rerun(d)

SpecRerun == InitRerun /\ [][NextRerun]_vars

\* ------------------------------------------------------------ the run

\* Mutant: today's reading is always inserted.
update_soil_temp_history_always_insert(st8, st, tday) ==
    IF st = None THEN st8
    ELSE
    LET history == Get(st8, "soil_temp_history", <<>>)
        today_str == strftime(tday)
        history1 == <<[date |-> today_str, temp |-> st]>> \o history
    IN  Put(Put(Put(st8, "soil_temp_history", SliceTo(history1, 14)),
                "last_soil_temp_f", st),
            "last_check", today_str)

\* Mutant: the list is not cut.
update_soil_temp_history_uncut(st8, st, tday) ==
    IF st = None THEN st8
    ELSE
    LET history == Get(st8, "soil_temp_history", <<>>)
        today_str == strftime(tday)
        history1 ==
            IF /\ Len(history) > 0
               /\ HasKey(history[1], "date")
               /\ history[1]["date"] = today_str
            THEN [history EXCEPT ![1] = Put(@, "temp", st)]
            ELSE <<[date |-> today_str, temp |-> st]>> \o history
    IN  Put(Put(Put(st8, "soil_temp_history", history1),
                "last_soil_temp_f", st),
            "last_check", today_str)

\* update_soil_temp_history(state, soil_temp, today): the state it leaves.
update_soil_temp_history(st8, st, tday) ==
    IF st = None THEN st8
    ELSE
    LET history == Get(st8, "soil_temp_history", <<>>)
        today_str == strftime(tday)
        history1 ==
            IF /\ Len(history) > 0
               /\ HasKey(history[1], "date")
               /\ history[1]["date"] = today_str
            THEN [history EXCEPT ![1] = Put(@, "temp", st)]
            ELSE <<[date |-> today_str, temp |-> st]>> \o history
    IN  Put(Put(Put(st8, "soil_temp_history", SliceTo(history1, 14)),
                "last_soil_temp_f", st),
            "last_check", today_str)

\* Mutant: a checked box stamps today's date whether or not the treatment
\* was already marked.
process_done_checkboxes_overwrite(read_ok, done_ids, st8, sched, tday) ==
    IF ~read_ok \/ done_ids = {} THEN [state |-> st8, saved |-> FALSE]
    ELSE
    LET valid_app_ids == Ids(sched)
        completed == Get(st8, "completed", EmptyDict)
        sent_alerts == Get(st8, "sent_alerts", EmptyDict)
        today_str == strftime(tday)
        marked == {app_id \in done_ids :
                      app_id \in valid_app_ids}
        completed1 == [app_id \in DOMAIN completed \cup marked |->
                          IF app_id \in marked THEN today_str
                          ELSE completed[app_id]]
        sent_alerts1 == [app_id \in DOMAIN sent_alerts \ marked |->
                            sent_alerts[app_id]]
        st1 == Put(st8, "completed", completed1)
    IN  [state |-> IF HasKey(st8, "sent_alerts")
                   THEN Put(st1, "sent_alerts", sent_alerts1) ELSE st1,
         saved |-> TRUE]

\* Mutant: the alert record of a treatment marked done is kept.
process_done_checkboxes_keeps_alert(read_ok, done_ids, st8, sched, tday) ==
    IF ~read_ok \/ done_ids = {} THEN [state |-> st8, saved |-> FALSE]
    ELSE
    LET valid_app_ids == Ids(sched)
        completed == Get(st8, "completed", EmptyDict)
        today_str == strftime(tday)
        marked == {app_id \in done_ids :
                      app_id \in valid_app_ids /\ ~HasKey(completed, app_id)}
        completed1 == [app_id \in DOMAIN completed \cup marked |->
                          IF app_id \in marked THEN today_str
                          ELSE completed[app_id]]
    IN  [state |-> Put(st8, "completed", completed1), saved |-> TRUE]

\* Mutant: the marks are left in memory, save_state is not called.
process_done_checkboxes_unsaved(read_ok, done_ids, st8, sched, tday) ==
    IF ~read_ok \/ done_ids = {} THEN [state |-> st8, saved |-> FALSE]
    ELSE
    LET valid_app_ids == Ids(sched)
        completed == Get(st8, "completed", EmptyDict)
        sent_alerts == Get(st8, "sent_alerts", EmptyDict)
        today_str == strftime(tday)
        marked == {app_id \in done_ids :
                      app_id \in valid_app_ids /\ ~HasKey(completed, app_id)}
        completed1 == [app_id \in DOMAIN completed \cup marked |->
                          IF app_id \in marked THEN today_str
                          ELSE completed[app_id]]
        sent_alerts1 == [app_id \in DOMAIN sent_alerts \ marked |->
                            sent_alerts[app_id]]
        st1 == Put(st8, "completed", completed1)
    IN  [state |-> IF HasKey(st8, "sent_alerts")
                   THEN Put(st1, "sent_alerts", sent_alerts1) ELSE st1,
         saved |-> FALSE]

\* process_done_checkboxes(config, state, schedule, today), for the ids the
\* sheet read returns (read_ok false: the read raised).  The ids are taken as
\* a set: the loop treats each id on its own and a repeated id is skipped.
\* [state, saved]: the state left in memory and whether save_state ran.
process_done_checkboxes(read_ok, done_ids, st8, sched, tday) ==
    IF ~read_ok \/ done_ids = {} THEN [state |-> st8, saved |-> FALSE]
    ELSE
    LET valid_app_ids == Ids(sched)
        completed == Get(st8, "completed", EmptyDict)
        sent_alerts == Get(st8, "sent_alerts", EmptyDict)
        today_str == strftime(tday)
        marked == {app_id \in done_ids :
                      app_id \in valid_app_ids /\ ~HasKey(completed, app_id)}
        completed1 == [app_id \in DOMAIN completed \cup marked |->
                          IF app_id \in marked THEN today_str
                          ELSE completed[app_id]]
        sent_alerts1 == [app_id \in DOMAIN sent_alerts \ marked |->
                            sent_alerts[app_id]]
        st1 == Put(st8, "completed", completed1)
    IN  [state |-> IF HasKey(st8, "sent_alerts")
                   THEN Put(st1, "sent_alerts", sent_alerts1) ELSE st1,
         saved |-> TRUE]

\* Mutant: the id is recorded whether or not the send reported success.
send_email_notifications_unconditional(entries, st8, tday, ok_ids, ok_heads_up) ==
    LET today_str == strftime(tday)
        sent_alerts == Get(st8, "sent_alerts", EmptyDict)
        ready_apps == SelectSeq(entries, LAMBDA a : a.ready)
        ready_sent == {ready_apps[k].id : k \in 1 .. Len(ready_apps)}
                          \ DOMAIN sent_alerts
        sent_alerts1 == [app_id \in DOMAIN sent_alerts \cup ready_sent |->
                            IF app_id \in ready_sent THEN today_str
                            ELSE sent_alerts[app_id]]
    IN  [state |-> Put(st8, "sent_alerts", sent_alerts1),
         saved |-> ready_sent # {}]

\* send_email_notifications(upcoming, config, state, ...): ok_ids are the
\* treatments whose ready email is sent with success, ok_heads_up whether the
\* heads-up email is.  [state, saved] as above.
send_email_notifications(entries, st8, tday, ok_ids, ok_heads_up) ==
    LET today_str == strftime(tday)
        sent_alerts == Get(st8, "sent_alerts", EmptyDict)
        ready_apps == SelectSeq(entries, LAMBDA a : a.ready)
        heads_up_apps == SelectSeq(entries, LAMBDA a : Get(a, "heads_up", FALSE))
        ready_sent == {ready_apps[k].id : k \in 1 .. Len(ready_apps)}
                          \cap (ok_ids \ DOMAIN sent_alerts)
        sent_alerts1 == [app_id \in DOMAIN sent_alerts \cup ready_sent |->
                            IF app_id \in ready_sent THEN today_str
                            ELSE sent_alerts[app_id]]
        new_heads_up == {heads_up_apps[k].id : k \in 1 .. Len(heads_up_apps)}
                            \ DOMAIN sent_alerts1
        heads_up_sent == IF ok_heads_up THEN new_heads_up ELSE {}
        sent_alerts2 == [app_id \in DOMAIN sent_alerts1 \cup heads_up_sent |->
                            IF app_id \in heads_up_sent THEN today_str
                            ELSE sent_alerts1[app_id]]
    IN  [state |-> Put(st8, "sent_alerts", sent_alerts2),
         saved |-> ready_sent # {} \/ heads_up_sent # {}]

\* A point of a step at which the run may stop (an exception out of a
\* collaborator, the process killed): the place, the treatment it concerns,
\* the state dict in memory and the state file as they are there.
Point(at, id, memory, dsk) ==
    [at |-> at, id |-> id, memory |-> memory, disk |-> dsk]

\* The loop over ready_apps: a send is tried for an entry whose id is not in
\* sent_alerts; when it reports success the id is recorded, then saved.
RECURSIVE ReadyPoints(_, _, _, _, _)
ReadyPoints(ready_apps, st8, dsk, today_str, ok_ids) ==
    IF Len(ready_apps) = 0 THEN <<>>
    ELSE
    LET app == Head(ready_apps)
        sent_alerts == st8["sent_alerts"]
        st1 == Put(st8, "sent_alerts", Put(sent_alerts, app.id, today_str))
    IN  IF HasKey(sent_alerts, app.id)
        THEN ReadyPoints(Tail(ready_apps), st8, dsk, today_str, ok_ids)
        ELSE IF app.id \notin ok_ids
        THEN <<Point("send", app.id, st8, dsk)>>
                 \o ReadyPoints(Tail(ready_apps), st8, dsk, today_str, ok_ids)
        ELSE <<Point("send", app.id, st8, dsk),
               Point("recorded", app.id, st1, dsk),
               Point("saved", app.id, st1, st1)>>
                 \o ReadyPoints(Tail(ready_apps), st1, st1, today_str, ok_ids)

\* The points send_email_notifications passes after its entry, with the
\* sends of send_email_notifications above: sent_alerts is set up in memory,
\* then a send, a record and a save for each ready entry, then one send, one
\* record and one save for the new heads-up entries together.
SendPoints(entries, st8, dsk, tday, ok_ids, ok_heads_up) ==
    LET today_str == strftime(tday)
        st0 == Put(st8, "sent_alerts", Get(st8, "sent_alerts", EmptyDict))
        ready_apps == SelectSeq(entries, LAMBDA a : a.ready)
        heads_up_apps == SelectSeq(entries, LAMBDA a : Get(a, "heads_up", FALSE))
        ready_points == ReadyPoints(ready_apps, st0, dsk, today_str, ok_ids)
        last == IF Len(ready_points) = 0 THEN Point("set", NoneStr, st0, dsk)
                ELSE ready_points[Len(ready_points)]
        new_heads_up == {heads_up_apps[k].id : k \in 1 .. Len(heads_up_apps)}
                            \ DOMAIN last.memory["sent_alerts"]
        sent_alerts2 == [app_id \in DOMAIN last.memory["sent_alerts"]
                                       \cup new_heads_up |->
                            IF app_id \in new_heads_up THEN today_str
                            ELSE last.memory["sent_alerts"][app_id]]
        st2 == Put(last.memory, "sent_alerts", sent_alerts2)
    IN  <<Point("set", NoneStr, st0, dsk)>>
        \o ready_points
        \o (IF new_heads_up = {} THEN <<>>
            ELSE <<Point("send_heads_up", NoneStr, last.memory, last.disk)>>
                 \o (IF ~ok_heads_up THEN <<>>
                     ELSE <<Point("recorded_heads_up", NoneStr, st2, last.disk),
                            Point("saved", NoneStr, st2, st2)>>))

\* A window treatment and a soil-temperature treatment.
RunSchedule ==
    [applications |-> <<
        App("fert",
            [type |-> "calendar_window", window_start |-> <<3, 8>>,
             window_end |-> <<3, 15>>]),
        App("seed", [type |-> "soil_temp", threshold_f |-> 55]) >>]

\* load_state() when no state file exists.
DefaultState ==
    [completed |-> EmptyDict, soil_temp_history |-> <<>>,
     last_soil_temp_f |-> None, last_check |-> NoneStr]

RunStart == Date(2026, 3, 7)
\* The ids on the rows of the sheet: the schedule's and one it does not have.
SheetIds == Ids(RunSchedule) \cup {"ghost"}
RunLimits == {0, DefaultLimit}

InitRuns ==
    /\ schedule = RunSchedule
    /\ today = RunStart
    /\ clock_year = YearOf(RunStart)
    /\ soil_temp = None
    /\ disk = DefaultState
    /\ state = DefaultState
    /\ limit = DefaultLimit
    /\ verdicts = <<>>
    /\ upcoming = <<>>
    /\ raised = ""
    /\ prev = <<>>
    /\ points = <<>>
    /\ fn_args = <<>>
    /\ fn_ret = <<>>
    /\ pc = "idle"

\* main starts on date d = date.today(), the day of the last run or the next,
\* and loads the state file; the run before has ended or was cut short.
StartRun(d) ==
    /\ d \in {today, today + 1}
    /\ d <= RunStart + MaxRunDays
    /\ today' = d
    /\ clock_year' = YearOf(d)
    /\ state' = disk
    /\ soil_temp' = None
    /\ verdicts' = <<>>
    /\ upcoming' = <<>>
    /\ raised' = ""
    /\ points' = <<>>
    /\ pc' = "loaded"
    /\ UNCHANGED <<schedule, disk, limit, prev, fn_args, fn_ret>>

\* process_done_checkboxes(config, state, schedule, today)
CheckBoxes(read_ok, done_ids) ==
    /\ pc = "loaded"
    /\ LET r == process_done_checkboxes(read_ok, done_ids, state, schedule,
                                        today)
       IN  /\ state' = r.state
           /\ disk' = IF r.saved THEN r.state ELSE disk
           /\ points' =
                  <<Point("entry", NoneStr, state, disk)>>
                  \o (IF r.saved \/ r.state # state
                      THEN <<Point("marked", NoneStr, r.state, disk)>>
                      ELSE <<>>)
                  \o (IF r.saved
                      THEN <<Point("saved", NoneStr, r.state, r.state)>>
                      ELSE <<>>)
    /\ prev' = <<[today |-> today,
                  done |-> IF read_ok THEN done_ids ELSE {}]>>
                    \o SubSeq(prev, 2, Len(prev))
    /\ pc' = "checked"
    /\ UNCHANGED <<schedule, soil_temp, today, clock_year, limit, verdicts,
                   upcoming, raised, fn_args, fn_ret>>

\* soil_temp = fetch_soil_temp(config); update_soil_temp_history(state,
\* soil_temp, today); save_state(state)
UpdateHistory(temp) ==
    /\ pc = "checked"
    /\ soil_temp' = temp
    /\ state' = update_soil_temp_history(state, temp, today)
    /\ disk' = state'
    /\ points' = <<Point("entry", NoneStr, state, disk),
                   Point("updated", NoneStr, state', disk),
                   Point("saved", NoneStr, state', state')>>
    /\ pc' = "updated"
    /\ UNCHANGED <<schedule, today, clock_year, limit, verdicts, upcoming,
                   raised, prev, fn_args, fn_ret>>

\* get_upcoming_applications(schedule, state, soil_temp, today, lim), with
\* evaluate_trigger's verdict of every treatment beside it.
RankRun(lim) ==
    /\ pc = "updated"
    /\ verdicts' = [i \in 1 .. Len(Apps) |->
                       evaluate_trigger(Apps[i], state, soil_temp, today,
                                        AllApps(Apps))]
    /\ LET r == get_upcoming_applications(schedule, state, soil_temp, today,
                                          lim)
       IN  /\ upcoming' = r.value
           /\ raised' = r.exc
    /\ limit' = lim
    /\ points' = <<Point("entry", NoneStr, state, disk)>>
    /\ pc' = "ranked"
    /\ UNCHANGED <<schedule, state, disk, soil_temp, today, clock_year, prev,
                   fn_args, fn_ret>>

\* The treatments whose ready email was tried without success in some call
\* of send_email_notifications so far, as the log of the runs keeps them
\* behind the boxes of the run.
FailedSends == IF Len(prev) > 1 THEN prev[2].failed ELSE {}

\* notify_upcoming = all_upcoming[:5]; send_email_notifications(...), called
\* when an entry is ready or heads-up.  The log keeps the treatments whose
\* send_ready_email returned False.
Notify(ok_ids, ok_heads_up) ==
    /\ pc = "ranked"
    /\ raised = ""
    /\ LET notify_upcoming == SliceTo(upcoming, 5)
       IN  /\ \E k \in 1 .. Len(notify_upcoming) :
                  \/ notify_upcoming[k].ready
                  \/ Get(notify_upcoming[k], "heads_up", FALSE)
           /\ LET r == send_email_notifications(notify_upcoming, state, today,
                                                ok_ids, ok_heads_up)
              IN  /\ state' = r.state
                  /\ disk' = IF r.saved THEN r.state ELSE disk
           /\ points' = <<Point("entry", NoneStr, state, disk)>>
                            \o SendPoints(notify_upcoming, state, disk, today,
                                          ok_ids, ok_heads_up)
           /\ prev' = <<prev[1],
                        [failed |-> FailedSends \cup
                            {notify_upcoming[k].id :
                                k \in {j \in 1 .. Len(notify_upcoming) :
                                    /\ notify_upcoming[j].ready
                                    /\ ~HasKey(Get(state, "sent_alerts",
                                                   EmptyDict),
                                               notify_upcoming[j].id)
                                    /\ notify_upcoming[j].id \notin ok_ids}}]>>
    /\ pc' = "notified"
    /\ UNCHANGED <<schedule, soil_temp, today, clock_year, limit, verdicts,
                   upcoming, raised, fn_args, fn_ret>>

NextRuns ==
    \/ \E d \in RunStart .. RunStart + MaxRunDays : StartRun(d)
    \/ \E read_ok \in BOOLEAN : \E done_ids \in SUBSET SheetIds :
           CheckBoxes(read_ok, done_ids)
    \/ \E temp \in SoilTemps : UpdateHistory(temp)
    \/ \E lim \in RunLimits : RankRun(lim)
    \/ \E ok_ids \in SUBSET Ids(RunSchedule) : \E ok_heads_up \in BOOLEAN :
           Notify(ok_ids, ok_heads_up)

SpecRuns == InitRuns /\ [][NextRuns]_vars

\* Schedules with malformed treatments.  BareSchedule: every known kind with
\* a parameter it reads left out, and a trigger without a kind field.
BareSchedule ==
    [applications |-> <<
        App("bare_soil", [type |-> "soil_temp"]),
        App("bare_fall", [type |-> "soil_temp_falling", consecutive_days |-> 2]),
        App("bare_after", [type |-> "days_after", reference_id |-> "bare_soil"]),
        App("bare_window", [type |-> "calendar_window"]),
        App("bare_alias", [type |-> "same_as"]),
        App("untyped", [note |-> "tbd"]) >>]

\* Treatments of no recognised kind beside a well-formed one.
UnknownSchedule ==
    [applications |-> <<
        App("untyped", [note |-> "tbd"]),
        [id |-> "bare", name |-> "bare"],
        App("rain", [type |-> "rainfall"]),
        App("fert",
            [type |-> "calendar_window", window_start |-> <<3, 8>>,
             window_end |-> <<3, 15>>]) >>]

InitShape == InitInputs({BareSchedule, UnknownSchedule}, {<<>>, <<55>>})

SpecShape == InitShape /\ [][Next]_vars

\* One treatment of every kind, the two soil-temperature ones with a typical
\* window, an alias of the first, and a treatment of no known kind.
KindsSchedule ==
    [applications |-> <<
        AppW("pre_emergent",
             [type |-> "soil_temp", threshold_f |-> 55, consecutive_days |-> 2],
             <<3, 8>>, <<3, 15>>),
        AppW("winterizer",
             [type |-> "soil_temp_falling", threshold_f |-> 54],
             <<9, 1>>, <<10, 15>>),
        App("fert",
            [type |-> "calendar_window", window_start |-> <<3, 8>>,
             window_end |-> <<3, 15>>]),
        App("followup",
            [type |-> "days_after", reference_id |-> "fert",
             days_min |-> 7, days_max |-> 14]),
        App("crabgrass", [type |-> "same_as", reference_id |-> "pre_emergent"]),
        App("aerate", [type |-> "rainfall"]) >>]

\* No history, two warm days, a cold day after a warm one, one cold day.
KindsTempSeqs == {<<>>, <<55, 55>>, <<54, 55>>, <<54>>}

InitKinds == InitInputs({KindsSchedule}, KindsTempSeqs)

SpecKinds == InitKinds /\ [][Next]_vars

\* ------------------------------------------- the recursion of same_as

\* Mutant: the reference of a completed alias is evaluated too.
Recurses_completed_too(id, st8, all_apps) ==
    LET trigger == Get(all_apps[id], "trigger", EmptyDict)
    IN  /\ Get(trigger, "type", NoneStr) = "same_as"
        /\ HasKey(trigger, "reference_id")
        /\ HasKey(all_apps, trigger["reference_id"])

\* evaluate_trigger for treatment id goes on to call itself for the
\* reference: the treatment is not completed, its kind is same_as and its
\* reference_id names a treatment of the lookup table.
Recurses(id, st8, all_apps) ==
    LET trigger == Get(all_apps[id], "trigger", EmptyDict)
    IN  /\ ~HasKey(Get(st8, "completed", EmptyDict), all_apps[id]["id"])
        /\ Get(trigger, "type", NoneStr) = "same_as"
        /\ HasKey(trigger, "reference_id")
        /\ HasKey(all_apps, trigger["reference_id"])

\* What _evaluate_same_as makes of the verdict the recursive call returned;
\* an exception out of the call goes on up.
CopyVerdict(ref_id, ref_result) ==
    IF ref_result.exc # "" THEN ref_result
    ELSE [InitialResult EXCEPT
            !.ready = ref_result.ready,
            !.projected_date = ref_result.projected_date,
            !.window_start = ref_result.window_start,
            !.window_end = ref_result.window_end,
            !.reason = <<"Same as", ref_id, ref_result.reason>>]

\* A chain of five aliases down to a window treatment.
ChainSchedule ==
    [applications |-> <<
        App("fert",
            [type |-> "calendar_window", window_start |-> <<3, 8>>,
             window_end |-> <<3, 15>>]),
        App("first", [type |-> "same_as", reference_id |-> "fert"]),
        App("second", [type |-> "same_as", reference_id |-> "first"]),
        App("third", [type |-> "same_as", reference_id |-> "second"]),
        App("fourth", [type |-> "same_as", reference_id |-> "third"]),
        App("fifth", [type |-> "same_as", reference_id |-> "fourth"]) >>]

\* A treatment that is its own alias, a dangling alias, and an alias of a
\* treatment whose trigger lacks its threshold.
SelfSchedule ==
    [applications |-> <<
        App("fert",
            [type |-> "calendar_window", window_start |-> <<3, 8>>,
             window_end |-> <<3, 15>>]),
        App("loop", [type |-> "same_as", reference_id |-> "loop"]),
        App("lost", [type |-> "same_as", reference_id |-> "ghost"]),
        App("bare", [type |-> "soil_temp"]),
        App("heir", [type |-> "same_as", reference_id |-> "bare"]) >>]

\* Two aliases of each other, and an alias that leads to them.
CycleSchedule ==
    [applications |-> <<
        App("ping", [type |-> "same_as", reference_id |-> "pong"]),
        App("pong", [type |-> "same_as", reference_id |-> "ping"]),
        App("tail", [type |-> "same_as", reference_id |-> "ping"]),
        App("fert",
            [type |-> "calendar_window", window_start |-> <<3, 8>>,
             window_end |-> <<3, 15>>]) >>]

AliasSchedules == {ChainSchedule, SelfSchedule, CycleSchedule}
AliasDays == {Date(2026, 3, 5), Date(2026, 3, 8)}

\* evaluate_trigger is called for one treatment of the schedule; fn_args is
\* the stack of the treatments whose evaluate_trigger call is in progress,
\* the outermost first, and prev logs the recursive calls.
InitAlias ==
    /\ schedule \in AliasSchedules
    /\ today \in AliasDays
    /\ clock_year = YearOf(today)
    /\ soil_temp \in SoilTemps
    /\ state \in {[completed |-> c, soil_temp_history |-> <<>>] :
                    c \in CompletedMaps(schedule)}
    /\ disk = state
    /\ limit = DefaultLimit
    /\ verdicts = <<>>
    /\ upcoming = <<>>
    /\ raised = ""
    /\ prev = <<>>
    /\ points = <<>>
    /\ fn_args \in {<<id>> : id \in Ids(schedule)}
    /\ fn_ret = InitialResult
    /\ pc = "call"

\* The call on top of the stack runs down to its return, or to the call of
\* evaluate_trigger for the reference inside _evaluate_same_as, which is
\* pushed; past the interpreter's limit that call raises RecursionError.
CallEvaluate ==
    /\ pc = "call"
    /\ LET id == fn_args[Len(fn_args)]
           all_apps == AllApps(Apps)
       IN  IF ~Recurses(id, state, all_apps)
           THEN /\ fn_ret' = evaluate_trigger(all_apps[id], state, soil_temp,
                                              today, all_apps)
                /\ pc' = "unwind"
                /\ UNCHANGED <<fn_args, prev>>
           ELSE IF Len(fn_args) >= RecursionLimit
           THEN /\ fn_ret' = Raise("RecursionError")
                /\ pc' = "unwind"
                /\ UNCHANGED <<fn_args, prev>>
           ELSE LET ref_id == all_apps[id]["trigger"]["reference_id"]
                IN  /\ fn_args' = Append(fn_args, ref_id)
                    /\ prev' = Append(prev, [caller |-> id, callee |-> ref_id])
                    /\ UNCHANGED <<fn_ret, pc>>
    /\ UNCHANGED <<schedule, state, disk, soil_temp, today, clock_year, limit,
                   verdicts, upcoming, raised, points>>

\* The call on top of the stack returns to _evaluate_same_as in the frame
\* below, which copies the verdict; the outermost call returns to its caller.
ReturnEvaluate ==
    /\ pc = "unwind"
    /\ IF Len(fn_args) = 1
       THEN /\ pc' = "returned"
            /\ UNCHANGED <<fn_args, fn_ret>>
       ELSE /\ fn_args' = SubSeq(fn_args, 1, Len(fn_args) - 1)
            /\ fn_ret' = CopyVerdict(fn_args[Len(fn_args)], fn_ret)
            /\ UNCHANGED pc
    /\ UNCHANGED <<schedule, state, disk, soil_temp, today, clock_year, limit,
                   verdicts, upcoming, raised, prev, points>>

NextAlias == CallEvaluate \/ ReturnEvaluate

SpecAlias == InitAlias /\ [][NextAlias]_vars

\* A call in progress goes on: the interpreter runs it to its return.
SpecAliasFair == SpecAlias /\ WF_vars(NextAlias)

\* ------------------------------------------------- the helpers alone

\* The variables no helper call reads or writes.
IdleEngine ==
    /\ schedule = [applications |-> <<>>]
    /\ state = DefaultState
    /\ disk = DefaultState
    /\ today = RunStart
    /\ clock_year = YearOf(RunStart)
    /\ soil_temp = None
    /\ limit = DefaultLimit
    /\ verdicts = <<>>
    /\ upcoming = <<>>
    /\ raised = ""
    /\ prev = <<>>
    /\ points = <<>>

EngineVars ==
    <<schedule, state, disk, soil_temp, today, clock_year, limit, verdicts,
      upcoming, raised, prev, points>>

\* Histories, thresholds and directions handed to the counter.
CounterTemps == {70, 85, 90}
CounterThresholds == {80, 85}
Directions == {"rising", "falling", "steady"}
CounterHistories ==
    {History(ts, RunStart) :
        ts \in UNION {[1 .. n -> CounterTemps] : n \in 0 .. MaxHist}}

InitCounter ==
    /\ IdleEngine
    /\ fn_args \in {[history |-> h, threshold |-> th, direction |-> dir] :
                       h \in CounterHistories, th \in CounterThresholds,
                       dir \in Directions}
    /\ fn_ret = None
    /\ pc = "call"

\* count_consecutive_days_at_temp(history, threshold, direction)
Count ==
    /\ pc = "call"
    /\ fn_ret' = count_consecutive_days_at_temp(fn_args.history,
                                                fn_args.threshold,
                                                fn_args.direction)
    /\ pc' = "returned"
    /\ UNCHANGED <<EngineVars, fn_args>>

SpecCounter == InitCounter /\ [][Count]_vars

\* ------------------------------------------------- the soil projector
\* Temperatures handed to and reported by the projector are tenths of a
\* degree; the running value soil is kept in millionths of a tenth, in which
\* three steps from one-decimal inputs are exact.  The inputs drawn put
\* no running value half-way between two tenths, where the float's rounding
\* would depend on its representation error.

\* SOIL_ALPHA_RISING = 0.79 and SOIL_ALPHA_FALLING = 0.15, in hundredths.
SOIL_ALPHA_RISING == 79
SOIL_ALPHA_FALLING == 15

Unit == 1000000

\* round(soil, 1), in tenths.
Round1(soil) ==
    LET q == soil \div Unit
        r == soil % Unit
    IN  IF 2 * r > Unit THEN q + 1
        ELSE IF 2 * r < Unit THEN q
        ELSE IF q % 2 = 0 THEN q ELSE q + 1

\* Mutant: one response factor for both directions.
RECURSIVE ProjectDays_symmetric(_, _, _, _)
ProjectDays_symmetric(soil, days, alpha_rising, alpha_falling) ==
    IF Len(days) = 0 THEN <<>>
    ELSE
    LET day == days[1]
        air_mean == day["mean"] * Unit
        diff == air_mean - soil
        alpha == alpha_rising
        soil1 == soil + (diff \div 100) * alpha
    IN  <<[date |-> day["date"], projected_soil_temp |-> Round1(soil1)]>>
            \o ProjectDays_symmetric(soil1, Tail(days), alpha_rising,
                                     alpha_falling)

\* The loop of project_soil_temps over the days left, soil the running value.
RECURSIVE ProjectDays(_, _, _, _)
ProjectDays(soil, days, alpha_rising, alpha_falling) ==
    IF Len(days) = 0 THEN <<>>
    ELSE
    LET day == days[1]
        air_mean == day["mean"] * Unit
        diff == air_mean - soil
        alpha == IF diff > 0 THEN alpha_rising ELSE alpha_falling
        soil1 == soil + (diff \div 100) * alpha
    IN  <<[date |-> day["date"], projected_soil_temp |-> Round1(soil1)]>>
            \o ProjectDays(soil1, Tail(days), alpha_rising, alpha_falling)

\* project_soil_temps(current_soil_temp, air_forecast, alpha_rising,
\* alpha_falling): the loop runs over air_forecast[1:].
project_soil_temps(current_soil_temp, air_forecast, alpha_rising, alpha_falling) ==
    ProjectDays(current_soil_temp * Unit,
                SubSeq(air_forecast, 2, Len(air_forecast)),
                alpha_rising, alpha_falling)

\* Soil and mean air temperatures, in tenths: air below, about and above
\* the soil's.
ProjectorSoils == {543, 550}
AirMeans == {501, 503, 571}
Forecast(means) ==
    [k \in 1 .. Len(means) |->
        [date |-> strftime(RunStart + k - 1), mean |-> means[k]]]
Forecasts ==
    {Forecast(means) :
        means \in UNION {[1 .. n -> AirMeans] : n \in 0 .. MaxForecast}}

InitProjector ==
    /\ IdleEngine
    /\ fn_args \in {[current_soil_temp |-> t, air_forecast |-> f] :
                       t \in ProjectorSoils, f \in Forecasts}
    /\ fn_ret = None
    /\ pc = "call"

\* projections = project_soil_temps(soil_temp, air_forecast)
Project ==
    /\ pc = "call"
    /\ fn_ret' = project_soil_temps(fn_args.current_soil_temp,
                                    fn_args.air_forecast,
                                    SOIL_ALPHA_RISING, SOIL_ALPHA_FALLING)
    /\ pc' = "returned"
    /\ UNCHANGED <<EngineVars, fn_args>>

SpecProjector == InitProjector /\ [][Project]_vars

\* ------------------------------------------------ the history alone

\* The dates and temperatures update_soil_temp_history is called with: a
\* caller passes any date, main passes date.today().
HistoryDays == RunStart .. RunStart + MaxRunDays
HistoryTemps == {None, 54, 55}

\* Histories a state file holds at longest: the 14 entries the program keeps,
\* and longer ones written by other hands.
LongestLoaded == 16

\* The state file after n daily readings, the newest on the first day.
LoadedState(n) ==
    [DefaultState EXCEPT
        !.soil_temp_history = History([k \in 1 .. n |-> 54], RunStart)]

HistoryIdle ==
    /\ schedule = [applications |-> <<>>]
    /\ today = RunStart
    /\ clock_year = YearOf(RunStart)
    /\ soil_temp = None
    /\ disk = state
    /\ limit = DefaultLimit
    /\ verdicts = <<>>
    /\ upcoming = <<>>
    /\ raised = ""
    /\ prev = <<>>
    /\ points = <<>>
    /\ fn_args = <<>>
    /\ fn_ret = <<>>
    /\ pc = "history"

InitHistory == state = DefaultState /\ HistoryIdle

InitReloaded ==
    /\ state \in {LoadedState(n) : n \in 0 .. LongestLoaded}
    /\ HistoryIdle

\* update_soil_temp_history(state, temp, d); prev logs the call and the
\* history it found.
UpdateOn(d, temp) ==
    /\ pc = "history"
    /\ Len(prev) < MaxUpdates
    /\ today' = d
    /\ soil_temp' = temp
    /\ state' = update_soil_temp_history(state, temp, d)
    /\ prev' = Append(prev, [today |-> d, temp |-> temp,
                             before |-> Get(state, "soil_temp_history", <<>>)])
    /\ UNCHANGED <<schedule, disk, clock_year, limit, verdicts, upcoming,
                   raised, points, fn_args, fn_ret, pc>>

NextHistory == \E d \in HistoryDays : \E temp \in HistoryTemps : UpdateOn(d, temp)

SpecHistory == InitHistory /\ [][NextHistory]_vars

SpecReloaded == InitReloaded /\ [][NextHistory]_vars

\* ------------------------------------------------- the system clock

\* The same calls made again when the system clock shows another year: the
\* arguments stay, date.today() changes; prev keeps the first results.
Reclock(y) ==
    /\ pc = "ranked"
    /\ Len(prev) = 0
    /\ y # clock_year
    /\ clock_year' = y
    /\ prev' = <<[clock_year |-> clock_year, schedule |-> schedule,
                  state |-> state, limit |-> limit, verdicts |-> verdicts,
                  upcoming |-> upcoming, raised |-> raised]>>
    /\ pc' = "start"
    /\ UNCHANGED <<schedule, state, disk, soil_temp, today, limit, verdicts,
                   upcoming, raised, points, fn_args, fn_ret>>

InitClock == InitInputs({SoilSchedule, WindowSchedule}, {<<>>})

NextClock ==
    \/ EvaluateAll
    \/ \E lim \in Limits : Rank(lim)
    \/ \E y \in ClockYears : Reclock(y)

SpecClock == InitClock /\ [][NextClock]_vars

\* =============================================================== claims

Completed == Get(state, "completed", EmptyDict)
HistoryNow == Get(state, "soil_temp_history", <<>>)
Pending == {i \in 1 .. Len(Apps) : ~HasKey(Completed, Apps[i]["id"])}
Evaluated == pc \in {"evaluated", "ranked"}
Returned == pc = "ranked" /\ raised = ""
TriggerOf(i) == Get(Apps[i], "trigger", EmptyDict)
KindOf(i) == Get(TriggerOf(i), "type", NoneStr)

\* The claim's effective date of an entry.
C1_Effective(x) ==
    IF x.projected_date # None THEN x.projected_date
    ELSE IF x.window_start # None THEN x.window_start
    ELSE Date(9999, 12, 31)

\* C1: the ranker's output is sorted ascending by (not-ready, effective date,
\* schedule position): ready entries precede not-ready ones, within a group
\* earlier effective dates come first, and entries equal in both keep their
\* schedule order.
C1_SortedByKey ==
    Returned =>
        \A i, j \in 1 .. Len(upcoming) :
            i < j =>
                LET a == upcoming[i]
                    b == upcoming[j]
                IN  /\ b.ready => a.ready
                    /\ a.ready = b.ready => C1_Effective(a) <= C1_Effective(b)
                    /\ (a.ready = b.ready /\ C1_Effective(a) = C1_Effective(b))
                           => a.schedule_order < b.schedule_order

\* A ranked list of at least three entries that holds a ready entry ahead of
\* a not-ready one, two entries tied on readiness and date, and an entry the
\* sort moved ahead of one that precedes it in the schedule.
C1_Witness ==
    /\ Returned
    /\ Len(upcoming) >= 3
    /\ \E i, j \in 1 .. Len(upcoming) :
            i < j /\ upcoming[i].ready /\ ~upcoming[j].ready
    /\ \E i, j \in 1 .. Len(upcoming) :
            /\ i < j
            /\ upcoming[i].ready = upcoming[j].ready
            /\ C1_Effective(upcoming[i]) = C1_Effective(upcoming[j])
    /\ \E i, j \in 1 .. Len(upcoming) :
            i < j /\ upcoming[i].schedule_order > upcoming[j].schedule_order

\* The five verdict fields of an entry are those of verdict v.
SameVerdict(e, v) ==
    /\ v.exc = ""
    /\ e.ready = v.ready
    /\ e.projected_date = v.projected_date
    /\ e.window_start = v.window_start
    /\ e.window_end = v.window_end
    /\ e.reason = v.reason

\* C2: when the limit does not truncate, the output holds exactly one entry
\* for every treatment whose id is not in completed, none for a completed
\* one, and each entry carries evaluate_trigger's verdict for its treatment.
C2_ExactlyThePending ==
    (Returned /\ limit >= Cardinality(Pending)) =>
        /\ Len(upcoming) = Cardinality(Pending)
        /\ \A k \in 1 .. Len(upcoming) : ~HasKey(Completed, upcoming[k].id)
        /\ \A i \in Pending :
               \E k \in 1 .. Len(upcoming) :
                   /\ upcoming[k].id = Apps[i]["id"]
                   /\ upcoming[k].schedule_order = i - 1
                   /\ SameVerdict(upcoming[k], verdicts[i])
                   /\ \A k2 \in 1 .. Len(upcoming) :
                          upcoming[k2].id = Apps[i]["id"] => k2 = k

\* An untruncated list with entries, from a schedule with a completed
\* treatment left out.
C2_Witness ==
    /\ Returned
    /\ limit >= Cardinality(Pending)
    /\ Cardinality(Pending) >= 2
    /\ Cardinality(Pending) < Len(Apps)
    /\ Len(upcoming) = Cardinality(Pending)

\* C3: the result is the sorted sequence cut to the limit: a positive limit n
\* yields its first min(n, pending) entries, and a limit of zero returns every
\* non-completed treatment.
C3_LimitZeroReturnsAll ==
    Returned =>
        LET all == get_upcoming_applications(schedule, state, soil_temp, today,
                                             Len(Apps)).value
        IN  /\ limit > 0 => upcoming = SubSeq(all, 1, Min(limit, Len(all)))
            /\ limit = 0 => /\ Len(upcoming) = Cardinality(Pending)
                            /\ upcoming = all

\* The first n entries of history h exist and are all at or above (at or
\* below) threshold th.
LeadingAtLeast(h, th, n) == n <= Len(h) /\ \A k \in 1 .. n : h[k]["temp"] >= th
LeadingAtMost(h, th, n) == n <= Len(h) /\ \A k \in 1 .. n : h[k]["temp"] <= th

DirectionOf(i) == Get(TriggerOf(i), "direction", "rising")
NeededOf(i) == Get(TriggerOf(i), "consecutive_days", 1)

C5_FallingReadyIffSeasonAndRun ==
    Evaluated =>
        \A i \in Pending :
            KindOf(i) = "soil_temp_falling" =>
                LET v == verdicts[i]
                IN  /\ v.exc = ""
                    /\ v.ready <=>
                           /\ today >= Date(YearOf(today), 8, 1)
                           /\ soil_temp # None
                           /\ LeadingAtMost(HistoryNow,
                                            TriggerOf(i)["threshold_f"],
                                            NeededOf(i))
                    /\ today < Date(YearOf(today), 8, 1) =>
                           /\ ~v.ready
                           /\ v.reason =
                                <<"Fall application - waiting for fall season">>

\* A fall treatment that fired in August on a run of cold days.
C5_Witness ==
    /\ Evaluated
    /\ MonthOf(today) = 8
    /\ \E i \in Pending :
           /\ KindOf(i) = "soil_temp_falling"
           /\ NeededOf(i) = 2
           /\ verdicts[i].ready

IsDaysAfter(i) == KindOf(i) = "days_after"
RefOf(i) == TriggerOf(i)["reference_id"]
Closed(v) == v.exc = "" /\ ~v.ready /\ v.reason[1] = "Window closed on"

\* What C6 and C8 say of a verdict v for the window [ws, we] on date d, but
\* for the case of a date past the window.
InOrBeforeWindow(v, ws, we, d) ==
    /\ v.exc = ""
    /\ v.window_start = ws
    /\ v.window_end = we
    /\ v.ready <=> (ws <= d /\ d <= we)
    /\ v.ready => v.projected_date = d
    /\ d < ws =>
           /\ ~v.ready
           /\ v.projected_date = ws
           /\ v.reason[1] = "Window opens in"
           /\ v.reason[2] = ws - d

WindowClosed(v) == Closed(v) /\ v.projected_date = None

NoWindow(v) ==
    /\ v.exc = ""
    /\ ~v.ready
    /\ v.projected_date = None
    /\ v.window_start = None
    /\ v.window_end = None

DaysAfterStart(i) == strptime(Completed[RefOf(i)]) + TriggerOf(i)["days_min"]
DaysAfterEnd(i) == strptime(Completed[RefOf(i)]) + TriggerOf(i)["days_max"]

\* C6 as claimed: for a non-completed days_after treatment, no window while
\* the reference is not completed; otherwise the window is [c + days_min,
\* c + days_max], ready iff today is inside it, projected_date = window_start
\* and the days remaining when today < window_start, and "window closed" with
\* null projected_date when today > window_end.
C6_Original ==
    Evaluated =>
        \A i \in Pending :
            IsDaysAfter(i) =>
                IF ~HasKey(Completed, RefOf(i)) THEN NoWindow(verdicts[i])
                ELSE /\ InOrBeforeWindow(verdicts[i], DaysAfterStart(i),
                                         DaysAfterEnd(i), today)
                     /\ today > DaysAfterEnd(i) => WindowClosed(verdicts[i])

\* C6 (amended): "window closed" is the verdict when today > window_end and
\* today >= window_start; with days_min > days_max a date between the two
\* bounds gets the window-still-to-open verdict.
C6_DaysAfterWindow ==
    Evaluated =>
        \A i \in Pending :
            IsDaysAfter(i) =>
                IF ~HasKey(Completed, RefOf(i)) THEN NoWindow(verdicts[i])
                ELSE /\ InOrBeforeWindow(verdicts[i], DaysAfterStart(i),
                                         DaysAfterEnd(i), today)
                     /\ (today > DaysAfterEnd(i) /\ today >= DaysAfterStart(i))
                            => WindowClosed(verdicts[i])

\* A days_after treatment, its reference completed on March 1st, ready on the
\* first day of its window [March 8th, March 15th].
C6_Witness ==
    /\ Evaluated
    /\ \E i \in Pending :
           /\ IsDaysAfter(i)
           /\ HasKey(Completed, RefOf(i))
           /\ TriggerOf(i)["days_min"] = 7
           /\ today = DaysAfterStart(i)
           /\ verdicts[i].ready
           /\ verdicts[i].window_end = today + 7

\* C7: a missed days_after window is never re-opened: with the completion
\* record unchanged, a days_after verdict that was not ready with "window
\* closed" on an earlier date is again not ready with "window closed" on
\* every later date the treatment is evaluated on.
C7_ClosedStaysClosed ==
    (pc = "ranked" /\ Len(prev) > 0) =>
        \A k \in 1 .. Len(prev) :
            \A i \in 1 .. Len(Apps) :
                (IsDaysAfter(i) /\ Closed(prev[k].verdicts[i])) =>
                    /\ prev[k].today < today
                    /\ Closed(verdicts[i])

\* A days_after window found closed, found closed again the next day and
\* again on a later date.
C7_Witness ==
    /\ pc = "ranked"
    /\ Len(prev) = 2
    /\ prev[2].today = prev[1].today + 1
    /\ today > prev[2].today + 1
    /\ \E i \in Pending :
           /\ IsDaysAfter(i)
           /\ TriggerOf(i)["days_min"] <= TriggerOf(i)["days_max"]
           /\ Closed(prev[1].verdicts[i])
           /\ Closed(prev[2].verdicts[i])
           /\ Closed(verdicts[i])

\* A calendar_window treatment whose two bounds are month-day strings, and
\* the dates they resolve to in the current year.
IsMonthDayWindow(i) ==
    /\ KindOf(i) = "calendar_window"
    /\ Len(TriggerOf(i)["window_start"]) = 2
    /\ Len(TriggerOf(i)["window_end"]) = 2
CalendarStart(i) ==
    LET s == TriggerOf(i)["window_start"] IN Date(clock_year, s[1], s[2])
CalendarEnd(i) ==
    LET s == TriggerOf(i)["window_end"] IN Date(clock_year, s[1], s[2])

\* C8 as claimed: for a non-completed calendar_window treatment with
\* month-day bounds resolved in the current year, the window is always set,
\* ready iff today is inside it (projected_date = today), projected_date =
\* window_start when today < window_start, and "window closed" with null
\* projected_date when today > window_end.
C8_Original ==
    Evaluated =>
        \A i \in Pending :
            IsMonthDayWindow(i) =>
                /\ InOrBeforeWindow(verdicts[i], CalendarStart(i),
                                    CalendarEnd(i), today)
                /\ today > CalendarEnd(i) => WindowClosed(verdicts[i])

\* C8 (amended): "window closed" is the verdict when today > window_end and
\* today >= window_start; a window whose end precedes its start in the
\* current year (one that wraps the new year) is still to open between them.
C8_CalendarWindow ==
    Evaluated =>
        \A i \in Pending :
            IsMonthDayWindow(i) =>
                /\ InOrBeforeWindow(verdicts[i], CalendarStart(i),
                                    CalendarEnd(i), today)
                /\ (today > CalendarEnd(i) /\ today >= CalendarStart(i))
                       => WindowClosed(verdicts[i])

\* A month-day window resolved in the clock's year, ready on its first day.
C8_Witness ==
    /\ Evaluated
    /\ \E i \in Pending :
           /\ IsMonthDayWindow(i)
           /\ CalendarStart(i) < CalendarEnd(i)
           /\ today = CalendarStart(i)
           /\ verdicts[i].ready
           /\ verdicts[i].projected_date = today

IsAlias(i) == KindOf(i) = "same_as"
IndexOf(id) == CHOOSE j \in 1 .. Len(Apps) : Apps[j]["id"] = id

\* C9: the verdict of a non-completed same_as treatment whose reference is in
\* the schedule has the ready flag, projected date and window of
\* evaluate_trigger's verdict for the referenced treatment, and the reason
\* "Same as <reference_id>: <inner reason>"; also through chains of aliases.
C9_AliasCopiesVerdict ==
    Evaluated =>
        \A i \in Pending :
            (IsAlias(i) /\ RefOf(i) \in Ids(schedule)) =>
                LET v == verdicts[i]
                    r == verdicts[IndexOf(RefOf(i))]
                IN  /\ v.exc = r.exc
                    /\ r.exc = "" =>
                           /\ v.ready = r.ready
                           /\ v.projected_date = r.projected_date
                           /\ v.window_start = r.window_start
                           /\ v.window_end = r.window_end
                           /\ v.reason = <<"Same as", RefOf(i), r.reason>>

\* An alias of an alias, ready with the window of the treatment at the end of
\* the chain.
C9_Witness ==
    /\ Evaluated
    /\ \E i \in Pending :
           /\ IsAlias(i)
           /\ RefOf(i) \in Ids(schedule)
           /\ IndexOf(RefOf(i)) \in Pending
           /\ IsAlias(IndexOf(RefOf(i)))
           /\ verdicts[i].ready
           /\ verdicts[i].projected_date = today
           /\ verdicts[i].window_start # None

\* C10: a same_as trigger whose reference is the id of no treatment gives a
\* verdict that is not ready, with null dates and a reason naming the missing
\* id; nothing raises, and the ranker still returns the other treatments.
C10_DanglingAliasDegrades ==
    Evaluated =>
        \A i \in Pending :
            (IsAlias(i) /\ RefOf(i) \notin Ids(schedule)) =>
                /\ NoWindow(verdicts[i])
                /\ verdicts[i].reason = <<"Reference app", RefOf(i), "not found">>
                /\ (pc = "ranked" /\ \A j \in Pending : verdicts[j].exc = "") =>
                       /\ raised = ""
                       /\ limit >= Cardinality(Pending) =>
                              \A j \in Pending :
                                  \E k \in 1 .. Len(upcoming) :
                                      /\ upcoming[k].id = Apps[j]["id"]
                                      /\ SameVerdict(upcoming[k], verdicts[j])

\* A ranked list that holds the dangling alias beside a ready treatment.
C10_Witness ==
    /\ Returned
    /\ limit >= Cardinality(Pending)
    /\ \E i \in Pending :
           /\ IsAlias(i)
           /\ RefOf(i) \notin Ids(schedule)
           /\ \E k \in 1 .. Len(upcoming) : upcoming[k].id = Apps[i]["id"]
    /\ \E k \in 1 .. Len(upcoming) : upcoming[k].ready

KnownKinds ==
    {"soil_temp", "soil_temp_falling", "days_after", "calendar_window",
     "same_as"}

\* Every non-completed treatment has an entry with its verdict in the list.
AllPendingListed ==
    \A j \in Pending :
        \E k \in 1 .. Len(upcoming) :
            /\ upcoming[k].id = Apps[j]["id"]
            /\ SameVerdict(upcoming[k], verdicts[j])

\* C11: a non-completed treatment whose kind is not recognised (a trigger
\* without a kind field and a treatment without a trigger included) gets a
\* verdict that is not ready, with null dates and the reason "Unknown trigger
\* type: <kind>"; nothing is raised for it, and the ranker still returns the
\* verdicts of the other treatments.
C11_UnknownKindDegrades ==
    Evaluated =>
        \A i \in Pending :
            KindOf(i) \notin KnownKinds =>
                /\ NoWindow(verdicts[i])
                /\ verdicts[i].reason = <<"Unknown trigger type:", KindOf(i)>>
                /\ (pc = "ranked" /\ \A j \in Pending : verdicts[j].exc = "") =>
                       /\ raised = ""
                       /\ limit >= Cardinality(Pending) => AllPendingListed

\* A returned list that holds a treatment with no trigger, one whose trigger
\* has no kind, one of an unknown kind, and a ready treatment.
C11_Witness ==
    /\ Returned
    /\ AllPendingListed
    /\ \E i \in Pending : ~HasKey(Apps[i], "trigger")
    /\ \E i \in Pending :
           HasKey(Apps[i], "trigger") /\ ~HasKey(TriggerOf(i), "type")
    /\ \E i \in Pending : KindOf(i) \notin KnownKinds \cup {NoneStr}
    /\ \E k \in 1 .. Len(upcoming) : upcoming[k].ready

\* The trigger parameters a kind reads by subscript.
RequiredOf(kind) ==
    CASE kind \in {"soil_temp", "soil_temp_falling"} -> {"threshold_f"}
      [] kind = "days_after" -> {"reference_id", "days_min", "days_max"}
      [] kind = "calendar_window" -> {"window_start", "window_end"}
      [] kind = "same_as" -> {"reference_id"}
      [] OTHER -> {}

\* C12: evaluate_trigger returns a verdict and raises nothing for every
\* non-completed treatment that has an id and a trigger kind, whatever other
\* trigger parameters are absent; with a parameter absent the verdict is not
\* ready.
C12_NeverRaisesOnMissingParameters ==
    Evaluated =>
        \A i \in Pending :
            (HasKey(Apps[i], "id") /\ HasKey(TriggerOf(i), "type")) =>
                /\ verdicts[i].exc = ""
                /\ (\E k \in RequiredOf(KindOf(i)) : ~HasKey(TriggerOf(i), k))
                       => ~verdicts[i].ready

Done == {i \in 1 .. Len(Apps) : HasKey(Completed, Apps[i]["id"])}

\* C13: whatever its trigger kind, a treatment whose id is in state.completed
\* gets ready=false, null projected_date and window, and the reason
\* "Completed on <recorded date>"; its trigger is not evaluated, so that a
\* trigger that could not be evaluated raises nothing.
C13_CompletedShortCircuits ==
    Evaluated =>
        \A i \in Done :
            /\ NoWindow(verdicts[i])
            /\ verdicts[i].reason = <<"Completed on", Completed[Apps[i]["id"]]>>

\* Completed treatments of every known kind, each with a parameter missing
\* that its evaluation would read, and one of no known kind.
C13_Witness ==
    /\ Evaluated
    /\ \A kind \in KnownKinds :
           \E i \in Done :
               /\ KindOf(i) = kind
               /\ \E k \in RequiredOf(kind) : ~HasKey(TriggerOf(i), k)
               /\ verdicts[i].reason[1] = "Completed on"
    /\ \E i \in Done : KindOf(i) \notin KnownKinds

\* C14: completion is permanent across runs: in every step of every run
\* (checkbox processing, history update, ranking, alert dispatch, the start of
\* the next run) an id in state.completed stays there with the date it has,
\* also when its box is checked again on a later day, and a list the ranker
\* returns holds no completed treatment.
C14_CompletionPermanent ==
    [][/\ \A id \in DOMAIN Completed :
              HasKey(Completed', id) /\ Completed'[id] = Completed[id]
       /\ (pc' = "ranked" /\ raised' = "") =>
              \A k \in 1 .. Len(upcoming') :
                  ~HasKey(Completed', upcoming'[k].id)]_vars

\* A run on a later day in which the box of a treatment completed on an
\* earlier day is checked again, the date kept, and the list returned holds
\* the other treatment only.
C14_Witness ==
    /\ pc = "ranked"
    /\ raised = ""
    /\ Len(prev) = 1
    /\ prev[1].today = today
    /\ Len(upcoming) >= 1
    /\ \E id \in DOMAIN Completed :
           /\ id \in prev[1].done
           /\ strptime(Completed[id]) < today
           /\ \A k \in 1 .. Len(upcoming) : upcoming[k].id # id

\* Entry k of the history handed to the counter meets the comparison of the
\* direction handed to it.
Meets(k) ==
    \/ /\ fn_args.direction = "rising"
       /\ fn_args.history[k]["temp"] >= fn_args.threshold
    \/ /\ fn_args.direction = "falling"
       /\ fn_args.history[k]["temp"] <= fn_args.threshold

\* C15: for the directions rising and falling the count returned is the
\* length of the longest prefix of the newest-first history whose entries all
\* meet the comparison: the entries before it meet it, the entry after it (if
\* any) does not, it is 0 for an empty history and never above the length.
C15_CountIsLongestPrefix ==
    (pc = "returned" /\ fn_args.direction \in {"rising", "falling"}) =>
        /\ fn_ret \in 0 .. Len(fn_args.history)
        /\ \A k \in 1 .. fn_ret : Meets(k)
        /\ fn_ret < Len(fn_args.history) => ~Meets(fn_ret + 1)
        /\ Len(fn_args.history) = 0 => fn_ret = 0

\* Temperatures 90, 85, 70 against the threshold 80, rising: 2, with an entry
\* after the run that is not counted.
C15_Witness ==
    /\ pc = "returned"
    /\ fn_args.direction = "rising"
    /\ fn_args.threshold = 80
    /\ Len(fn_args.history) = 3
    /\ fn_args.history[1]["temp"] = 90
    /\ fn_args.history[2]["temp"] = 85
    /\ fn_args.history[3]["temp"] = 70
    /\ fn_ret = 2

\* One step of the lag model from the base value soil (in millionths of a
\* tenth) towards the mean air temperature of forecast entry k.
LagStep(soil, k) ==
    LET air == fn_args.air_forecast[k]["mean"] * Unit
        alpha == IF air > soil THEN SOIL_ALPHA_RISING ELSE SOIL_ALPHA_FALLING
    IN  soil + ((air - soil) \div 100) * alpha

\* soil[n] of the recurrence, soil[0] the current soil temperature; day n is
\* forecast entry n + 1.
RECURSIVE SoilAt(_)
SoilAt(n) ==
    IF n = 0 THEN fn_args.current_soil_temp * Unit
    ELSE LagStep(SoilAt(n - 1), n + 1)

\* C16: project_soil_temps returns one point per forecast entry after the
\* first, in forecast order and with that entry's date (none for a forecast of
\* zero or one entries), and the value of day n is soil[n] = soil[n-1] +
\* alpha * (air_mean[n] - soil[n-1]), reported to one decimal, with soil[0] the
\* current soil temperature and alpha = alpha_rising when air_mean[n] >
\* soil[n-1], alpha_falling otherwise.
C16_OnePointPerLaterDay ==
    pc = "returned" =>
        /\ Len(fn_ret) = Max(0, Len(fn_args.air_forecast) - 1)
        /\ \A n \in 1 .. Len(fn_ret) :
               /\ fn_ret[n].date = fn_args.air_forecast[n + 1]["date"]
               /\ fn_ret[n].projected_soil_temp = Round1(SoilAt(n))

\* A forecast of three entries: a day of warming, then a day of cooling, two
\* points returned.
C16_Witness ==
    /\ pc = "returned"
    /\ Len(fn_args.air_forecast) = 3
    /\ Len(fn_ret) = 2
    /\ fn_args.air_forecast[2]["mean"] > fn_args.current_soil_temp
    /\ fn_args.air_forecast[3]["mean"] * Unit < SoilAt(1)
    /\ fn_ret[1].projected_soil_temp > fn_args.current_soil_temp
    /\ fn_ret[2].projected_soil_temp < fn_ret[1].projected_soil_temp

\* C17: each projected value is rounded to one decimal before it is carried
\* forward: the value reported for day n is one step of the lag model from
\* the value reported for day n - 1.
C17_RoundedValueCarriedForward ==
    pc = "returned" =>
        \A n \in 2 .. Len(fn_ret) :
            fn_ret[n].projected_soil_temp =
                Round1(LagStep(fn_ret[n - 1].projected_soil_temp * Unit, n + 1))

\* The last call of update_soil_temp_history and the entry it writes.
LastCall == prev[Len(prev)]
Known(call) == call.temp # None
Reading(call) == [date |-> strftime(call.today), temp |-> call.temp]
SameDay(call) ==
    Len(call.before) > 0 /\ call.before[1]["date"] = strftime(call.today)

\* C18: after an update_soil_temp_history call with a known temperature the
\* history has at most 14 entries, whatever its length before: a history of
\* 14 or more entries is left with 14, and a new day's reading put before a
\* 14-entry history drops its oldest entry; so a history of at most 14
\* entries, as every history grown from the empty one is, never passes 14.
C18_HistoryCapped ==
    (pc = "history" /\ Len(prev) > 0) =>
        /\ Known(LastCall) =>
               /\ Len(HistoryNow) <= 14
               /\ Len(LastCall.before) >= 14 => Len(HistoryNow) = 14
               /\ (Len(LastCall.before) = 14 /\ ~SameDay(LastCall)) =>
                      HistoryNow = <<Reading(LastCall)>>
                                       \o SubSeq(LastCall.before, 1, 13)
        /\ Len(LastCall.before) <= 14 => Len(HistoryNow) <= 14

\* A 14-entry history loaded from the state file, given the next day's
\* reading: 14 entries, the oldest gone.
C18_Witness ==
    /\ pc = "history"
    /\ Len(prev) = 1
    /\ Known(LastCall)
    /\ Len(LastCall.before) = 14
    /\ ~SameDay(LastCall)
    /\ Len(HistoryNow) = 14
    /\ HistoryNow[1] = Reading(LastCall)
    /\ HistoryNow[14] = LastCall.before[13]

\* The dates of a history strictly decrease from index 0 on.
DatesDecrease(h) ==
    \A k \in 1 .. Len(h) - 1 : strptime(h[k]["date"]) > strptime(h[k + 1]["date"])

\* What a call with a known temperature on the day of entry 0 does: entry 0
\* gets the temperature, nothing is inserted.
OverwritesSameDay ==
    (Len(prev) > 0 /\ Known(LastCall) /\ SameDay(LastCall)) =>
        /\ Len(HistoryNow) = Len(LastCall.before)
        /\ HistoryNow[1] = Reading(LastCall)
        /\ \A k \in 2 .. Len(HistoryNow) : HistoryNow[k] = LastCall.before[k]

DatesNeverGoBack ==
    \A j, k \in 1 .. Len(prev) :
        (j < k /\ Known(prev[j]) /\ Known(prev[k])) =>
            prev[j].today <= prev[k].today

C20_IndependentOfClock ==
    (Evaluated /\ Len(prev) = 1) =>
        /\ verdicts = prev[1].verdicts
        /\ (pc = "ranked" /\ limit = prev[1].limit) =>
               (upcoming = prev[1].upcoming /\ raised = prev[1].raised)
        /\ state = prev[1].state
        /\ schedule = prev[1].schedule

SentAlerts(st8) == Get(st8, "sent_alerts", EmptyDict)

\* Two state dicts hold the same under every key but sent_alerts.
SameButAlerts(a, b) ==
    /\ DOMAIN a \ {"sent_alerts"} = DOMAIN b \ {"sent_alerts"}
    /\ \A key \in DOMAIN a \ {"sent_alerts"} : a[key] = b[key]

\* The points right after a mutation of the state in memory.
Mutated == {"marked", "updated", "recorded", "recorded_heads_up"}

\* C21: the state is persisted at each checkpoint of a run.  Every step
\* (checkbox processing, history update, ranking, alert dispatch) starts with
\* the state file equal to the state in memory; after the completion marks,
\* after the history update and after each alert recorded the next point is a
\* save that leaves the file equal to memory; so at every point where the run
\* may stop the file holds what memory held at a point of the step in flight,
\* and between the record of an alert and its save the two differ by that
\* one sent_alerts entry.
C21_CheckpointsBoundTheLoss ==
    Len(points) > 0 =>
        /\ points[1].at = "entry"
        /\ points[1].disk = points[1].memory
        /\ \A k \in 1 .. Len(points) :
               /\ \E j \in 1 .. k : points[k].disk = points[j].memory
               /\ points[k].at \in Mutated =>
                      /\ k < Len(points)
                      /\ points[k + 1].at = "saved"
                      /\ points[k + 1].memory = points[k].memory
                      /\ points[k + 1].disk = points[k].memory
               /\ points[k].at = "recorded" =>
                      /\ SameButAlerts(points[k].memory, points[k].disk)
                      /\ SentAlerts(points[k].memory) =
                             Put(SentAlerts(points[k].disk), points[k].id,
                                 strftime(today))
        /\ points[Len(points)].memory = state
        /\ points[Len(points)].disk = disk

\* An alert dispatch that sends two ready emails with success: each is
\* recorded and saved before the next send, and the step ends with the file
\* equal to memory, both holding the two alerts.
C21_Witness ==
    /\ pc = "notified"
    /\ \E j, k \in 1 .. Len(points) - 1 :
           /\ j + 1 < k
           /\ points[j].at = "recorded"
           /\ points[j + 1].at = "saved"
           /\ points[k].at = "send"
           /\ points[k + 1].at = "recorded"
           /\ points[k].id # points[j].id
           /\ points[k].disk = points[j].memory
    /\ disk = state
    /\ Cardinality(DOMAIN SentAlerts(disk)) = 2

HasTypicalWindow(i) == HasKey(Apps[i], "kc_typical_window")
TypicalStart(i) == parse_date(Apps[i]["kc_typical_window"]["start"])
TypicalEnd(i) == parse_date(Apps[i]["kc_typical_window"]["end"])

\* The verdict of treatment i were it to carry no typical window.
WithoutTypicalWindow(i) ==
    evaluate_trigger(Del(Apps[i], "kc_typical_window"), state, soil_temp, today,
                     AllApps(Apps))

\* C22: a non-completed soil_temp treatment that carries a typical window has
\* window_start and window_end from that window in every verdict (soil
\* temperature unknown, ready, not ready), and the window does not touch the
\* ready flag: it is ready exactly when the soil temperature is known and the
\* run reaches consecutive_days, as the same treatment without a window is,
\* whether today lies in the window or not.
C22_TypicalWindowNeverGates ==
    Evaluated =>
        \A i \in Pending :
            (KindOf(i) = "soil_temp" /\ HasTypicalWindow(i)) =>
                LET v == verdicts[i]
                IN  /\ v.exc = ""
                    /\ v.window_start = TypicalStart(i)
                    /\ v.window_end = TypicalEnd(i)
                    /\ v.ready = WithoutTypicalWindow(i).ready
                    /\ v.ready <=>
                           /\ soil_temp # None
                           /\ LeadingAtLeast(HistoryNow,
                                             TriggerOf(i)["threshold_f"],
                                             NeededOf(i))

\* The treatment ready on a day after its typical window has ended, the
\* window in the verdict all the same.
C22_Witness ==
    /\ Evaluated
    /\ \E i \in Pending :
           /\ KindOf(i) = "soil_temp"
           /\ HasTypicalWindow(i)
           /\ verdicts[i].ready
           /\ today > TypicalEnd(i)
           /\ verdicts[i].window_start = TypicalStart(i)
           /\ verdicts[i].window_end = TypicalEnd(i)

\* The fixed texts that open the reasons of each kind's policy.
PolicyReasons(kind) ==
    CASE kind = "soil_temp" -> {"Waiting for soil temp data", "Soil temp"}
      [] kind = "soil_temp_falling" ->
            {"Fall application - waiting for fall season",
             "Waiting for soil temp data", "Soil temp"}
      [] kind = "days_after" ->
            {"Waiting on", "In window", "Window opens in", "Window closed on"}
      [] kind = "calendar_window" ->
            {"In calendar window", "Window opens in", "Window closed on"}
      [] kind = "same_as" -> {"Reference app", "Same as"}
      [] OTHER -> {"Unknown trigger type:"}

\* The policy of treatment i's kind applied to it.
PolicyVerdict(i) ==
    CASE KindOf(i) = "soil_temp" ->
            _evaluate_soil_temp_rising(Apps[i], TriggerOf(i), HistoryNow,
                                       soil_temp, today, InitialResult)
      [] KindOf(i) = "soil_temp_falling" ->
            _evaluate_soil_temp_falling(Apps[i], TriggerOf(i), HistoryNow,
                                        soil_temp, today, InitialResult)
      [] KindOf(i) = "days_after" ->
            _evaluate_days_after(TriggerOf(i), Completed, today, InitialResult)
      [] KindOf(i) = "calendar_window" ->
            _evaluate_calendar_window(TriggerOf(i), today, InitialResult)
      [] KindOf(i) = "same_as" ->
            _evaluate_same_as(TriggerOf(i), AllApps(Apps), state, soil_temp,
                              today, InitialResult)
      [] OTHER ->
            [InitialResult EXCEPT
                !.reason = <<"Unknown trigger type:", KindOf(i)>>]

\* C23: evaluate_trigger recognises exactly five kinds, the rising kind under
\* the tag soil_temp, and gives a non-completed treatment the verdict of its
\* own kind's policy; the "Unknown trigger type" verdict goes to the kinds
\* outside the five and to no other.
C23_FiveKindsDispatched ==
    Evaluated =>
        \A i \in Pending :
            LET v == verdicts[i]
            IN  /\ v = PolicyVerdict(i)
                /\ v.exc = "" => v.reason[1] \in PolicyReasons(KindOf(i))
                /\ KindOf(i) \notin KnownKinds <=>
                       (v.exc = "" /\ v.reason[1] = "Unknown trigger type:")

\* A schedule with nothing completed: a treatment of each of the five kinds
\* with a reason of its own policy, and one of another kind reported unknown.
C23_Witness ==
    /\ Evaluated
    /\ Pending = 1 .. Len(Apps)
    /\ \A kind \in KnownKinds :
           \E i \in Pending :
               /\ KindOf(i) = kind
               /\ verdicts[i].reason[1] \in PolicyReasons(kind)
    /\ \E i, j \in Pending :
           /\ verdicts[i].reason[1] = "Soil temp"
           /\ verdicts[j].reason[1] = "In calendar window"
    /\ \E i \in Pending :
           /\ KindOf(i) \notin KnownKinds
           /\ verdicts[i].reason = <<"Unknown trigger type:", KindOf(i)>>

SoilKinds == {"soil_temp", "soil_temp_falling"}
WindowKinds == {"days_after", "calendar_window"}

\* C24: in every verdict evaluate_trigger returns, of a completed treatment
\* or not and of every kind, aliases included, ready implies projected_date =
\* today; a soil-temperature verdict has a projected_date exactly when it is
\* ready; and a not-ready verdict with a projected_date, which only a window
\* trigger or an alias of one gives, has projected_date = window_start, a
\* date after today.
C24_ProjectedDateOnlyTodayOrWindowStart ==
    Evaluated =>
        \A i \in 1 .. Len(Apps) :
            LET v == verdicts[i]
            IN  v.exc = "" =>
                    /\ v.ready => v.projected_date = today
                    /\ KindOf(i) \in SoilKinds =>
                           (v.projected_date # None <=> v.ready)
                    /\ (~v.ready /\ v.projected_date # None) =>
                           /\ KindOf(i) \in WindowKinds \cup {"same_as"}
                           /\ v.projected_date = v.window_start
                           /\ v.window_start > today

\* A ready alias dated today, a window treatment that opens later dated the
\* first day of its window, and a soil-temperature treatment that waits
\* with no date.
C24_Witness ==
    /\ Evaluated
    /\ \E i \in Pending :
           IsAlias(i) /\ verdicts[i].ready /\ verdicts[i].projected_date = today
    /\ \E i \in Pending :
           /\ KindOf(i) \in WindowKinds
           /\ ~verdicts[i].ready
           /\ verdicts[i].projected_date = verdicts[i].window_start
           /\ verdicts[i].window_start > today
    /\ \E i \in Pending :
           /\ KindOf(i) \in SoilKinds
           /\ ~verdicts[i].ready
           /\ verdicts[i].projected_date = None
           /\ verdicts[i].window_start # None

\* Treatment id is an alias of a treatment of the schedule.
RefersOn(id) ==
    LET trigger == Get(AllApps(Apps)[id], "trigger", EmptyDict)
    IN  /\ Get(trigger, "type", NoneStr) = "same_as"
        /\ HasKey(trigger, "reference_id")
        /\ trigger["reference_id"] \in Ids(schedule)

\* The treatment n same_as references on from id, "None" when the chain of
\* references ends before; live: a reference is followed as evaluate_trigger
\* follows it, not out of a completed treatment.
RECURSIVE AliasWalk(_, _, _)
AliasWalk(id, n, live) ==
    IF n = 0 THEN id
    ELSE IF id = NoneStr THEN NoneStr
    ELSE IF RefersOn(id) /\ (live => Recurses(id, state, AllApps(Apps)))
    THEN AliasWalk(AllApps(Apps)[id]["trigger"]["reference_id"], n - 1, live)
    ELSE NoneStr

\* The same_as references of the schedule form a cycle.
HasCycle ==
    \E id \in Ids(schedule) :
        \E n \in 1 .. Len(Apps) : AliasWalk(id, n, FALSE) = id

\* The references evaluate_trigger follows from treatment id never end.
RunsIntoCycle(id) == AliasWalk(id, Len(Apps), TRUE) # NoneStr

\* The number of references evaluate_trigger follows from treatment id (the
\* number of treatments when they never end).
ChainLength(id) ==
    CHOOSE n \in 0 .. Len(Apps) :
        /\ AliasWalk(id, n, TRUE) # NoneStr
        /\ n < Len(Apps) => AliasWalk(id, n + 1, TRUE) = NoneStr

\* The chain from treatment id asks for more nested calls than the
\* interpreter allows.
TooDeep(id) == RunsIntoCycle(id) \/ ChainLength(id) >= RecursionLimit

Aliases == {i \in 1 .. Len(Apps) : IsAlias(i)}

\* The outermost call has returned or raised.
CallOver == pc = "returned"

AliasCallOutcome ==
    CallOver =>
        LET root == fn_args[1]
            last == AliasWalk(root, ChainLength(root), TRUE)
        IN  /\ fn_ret.exc = "RecursionError" <=> TooDeep(root)
            /\ ~TooDeep(root) =>
                   /\ Len(prev) = ChainLength(root)
                   /\ \A j, k \in 1 .. Len(prev) :
                          j # k => prev[j].caller # prev[k].caller
                   /\ fn_ret = evaluate_trigger(AllApps(Apps)[root], state,
                                                soil_temp, today, AllApps(Apps))
                   /\ fn_ret.exc =
                          evaluate_trigger(AllApps(Apps)[last], state,
                                           soil_temp, today, AllApps(Apps)).exc

AliasesOfDone ==
    {i \in Pending : IsAlias(i) /\ HasKey(Completed, RefOf(i))
                                /\ HasKey(AllApps(Apps), RefOf(i))}

\* C26: a same_as treatment that is not completed itself and whose referenced
\* treatment is in state.completed is never ready: on every date, with every
\* soil temperature and history, its verdict is not ready with null
\* projected_date and window, and its reason wraps the reference's
\* "Completed on <date>".
C26_AliasOfCompletedNeverReady ==
    Evaluated =>
        \A i \in AliasesOfDone :
            /\ NoWindow(verdicts[i])
            /\ verdicts[i].reason =
                   <<"Same as", RefOf(i),
                     <<"Completed on", Completed[RefOf(i)]>> >>

\* An alias of a completed soil-temperature treatment, not ready on a day on
\* which the soil temperature would make that treatment ready.
C26_Witness ==
    /\ Evaluated
    /\ \E i \in AliasesOfDone :
           LET j == IndexOf(RefOf(i))
           IN  /\ KindOf(j) = "soil_temp"
               /\ PolicyVerdict(j).ready
               /\ ~verdicts[i].ready
               /\ verdicts[i].reason[3][1] = "Completed on"

\* C27: a non-completed soil_temp_falling treatment that carries a typical
\* window has window_start and window_end from that window in every verdict:
\* out of season, waiting for soil-temperature data, not ready and ready.
C27_FallingAlwaysCarriesWindow ==
    Evaluated =>
        \A i \in Pending :
            (KindOf(i) = "soil_temp_falling" /\ HasTypicalWindow(i)) =>
                /\ verdicts[i].exc = ""
                /\ verdicts[i].window_start = TypicalStart(i)
                /\ verdicts[i].window_end = TypicalEnd(i)

\* The treatments with a point of the kind given among the points of the
\* last step.
PointsAt(at) == {points[k].id : k \in {j \in 1 .. Len(points) : points[j].at = at}}

\* The ready entries main hands to send_email_notifications.
HandedReady ==
    LET notify_upcoming == SliceTo(upcoming, 5)
    IN  {notify_upcoming[k].id :
            k \in {j \in 1 .. Len(notify_upcoming) : notify_upcoming[j].ready}}

\* What a call of send_email_notifications in which the ready emails of
\* ok_ids are sent with success does: a send is tried for the ready entries
\* absent from sent_alerts and for no other; the ids of those sent with
\* success are written with today's date and are in the file, the other
\* entries of sent_alerts stay as they are.
AlertsGated(ok_ids) ==
    LET before == SentAlerts(state)
        after == SentAlerts(state)'
        tried == HandedReady \ DOMAIN before
    IN  /\ PointsAt("send")' = tried
        /\ PointsAt("recorded")' = tried \cap ok_ids
        /\ DOMAIN after = DOMAIN before \cup (tried \cap ok_ids)
        /\ \A id \in DOMAIN before : after[id] = before[id]
        /\ \A id \in tried \cap ok_ids :
               /\ after[id] = strftime(today)
               /\ SentAlerts(disk)' = after
        /\ FailedSends' = FailedSends \cup (tried \ ok_ids)

\* A run has ranked the treatments: one whose ready email failed before and
\* that is ready and absent from sent_alerts is among the entries handed to
\* send_email_notifications, which will try its email.
RetriedWhenReady ==
    (pc = "ranked" /\ raised = "") =>
        \A i \in Pending :
            (/\ Apps[i]["id"] \in FailedSends
             /\ verdicts[i].ready
             /\ ~HasKey(SentAlerts(state), Apps[i]["id"])) =>
                Apps[i]["id"] \in HandedReady

Disjoint(st8) ==
    DOMAIN Get(st8, "completed", EmptyDict) \cap DOMAIN SentAlerts(st8) = {}

\* C29: from a state in which completed and sent_alerts share no id, after
\* every step of every run, and in the state file at every point at which a
\* run may stop, no treatment id is in both maps; an alert is recorded for
\* entries of the ranker's list only, which holds no completed treatment.
C29_CompletedAndAlertedDisjoint ==
    /\ Disjoint(state)
    /\ Disjoint(disk)
    /\ \A k \in 1 .. Len(points) : Disjoint(points[k].disk)
    /\ PointsAt("recorded") \cap DOMAIN Completed = {}

\* A run that marks done a treatment alerted in an earlier run: its
\* sent_alerts entry is gone from memory and from the file, the entry of the
\* other treatment stays.
C29_Witness ==
    /\ pc = "checked"
    /\ Len(points) = 3
    /\ \E id \in DOMAIN Completed :
           /\ HasKey(SentAlerts(points[1].memory), id)
           /\ ~HasKey(Get(points[1].memory, "completed", EmptyDict), id)
           /\ ~HasKey(SentAlerts(state), id)
           /\ ~HasKey(SentAlerts(disk), id)
    /\ SentAlerts(disk) # EmptyDict

\* The positions of the entries the reports take as heads-up (a.get("heads_up")),
\* as ready, and as plain upcoming (not ready and not heads-up).
HeadsUpApps == {k \in 1 .. Len(upcoming) : Get(upcoming[k], "heads_up", FALSE)}
ReadyApps == {k \in 1 .. Len(upcoming) : upcoming[k].ready}
UpcomingApps ==
    {k \in 1 .. Len(upcoming) :
        ~upcoming[k].ready /\ ~Get(upcoming[k], "heads_up", FALSE)}

\* C30: no entry of a list get_upcoming_applications returns carries a
\* heads-up classification: in every run the heads-up list built from the
\* entries is empty, no step passes a send of the heads-up email, and every
\* entry that is not ready is reported as plain upcoming.
C30_NoHeadsUp ==
    /\ (pc \in {"ranked", "notified"} /\ raised = "") =>
           /\ \A k \in 1 .. Len(upcoming) : ~HasKey(upcoming[k], "heads_up")
           /\ HeadsUpApps = {}
           /\ UpcomingApps = (1 .. Len(upcoming)) \ ReadyApps
    /\ \A k \in 1 .. Len(points) :
           points[k].at \notin {"send_heads_up", "recorded_heads_up"}

\* A call of send_email_notifications with an entry that is not ready and
\* whose window opens on the next day: the ready email is sent, the entry is
\* plain upcoming and no heads-up email is sent.
C30_Witness ==
    /\ pc = "notified"
    /\ "send" \in {points[k].at : k \in 1 .. Len(points)}
    /\ \E k \in UpcomingApps : upcoming[k].projected_date = today + 1
    /\ HeadsUpApps = {}

====
